---------------------------- MODULE Spec2Model ----------------------------
(***************************************************************************)
(* A model of MissionComparator (compare_missions.py): the path functions  *)
(* calculate_distance, resample_path_by_distance, find_closest_point,      *)
(* calculate_path_statistics and calculate_accuracy_to_planned, and the    *)
(* session methods load_all_sessions, compare_all_sessions and             *)
(* export_comparison_data.                                                 *)
(*                                                                         *)
(* Representation.                                                         *)
(*  - A Python value that may be None is a sequence of length <= 1:        *)
(*    None is << >> and the number v is << v >>.                           *)
(*  - A telemetry point (a dict) is a record with the fields latitude,     *)
(*    longitude, depth, altitude and heading.                              *)
(*  - A Python list of dicts holds references.  A list derived from an     *)
(*    input list (the resampled path, the closest point) is modelled by    *)
(*    the 1-based positions of the referenced dicts in the input list, so  *)
(*    that identity (Python's "is") is position, and 0 is the reference    *)
(*    None.                                                                *)
(*  - Latitude and longitude are integers counting grid steps of 0.30 m    *)
(*    on the sphere close to the equator and the prime meridian;           *)
(*    distances and intervals are integers counting centimetres.           *)
(*  - A dict with string keys is a function on its keys; {} is << >>.      *)
(***************************************************************************)
EXTENDS Integers, Sequences, FiniteSets, TLC

VARIABLES
    pc,                 \* the position of the call in flight
    telemetry_data,     \* resample_path_by_distance: the argument list
    interval_m,         \* resample_path_by_distance: the interval (cm)
    i,                  \* resample_path_by_distance: the loop index (1-based)
    resampled,          \* resample_path_by_distance: references into telemetry_data
    current_distance,   \* resample_path_by_distance: the accumulator (cm)
    target_point,       \* find_closest_point: the query point
    path_points,        \* find_closest_point: the candidate list
    closest_point,      \* find_closest_point: returned reference into path_points, 0 for None
    min_distance,       \* find_closest_point: returned distance (cm), Inf for float('inf')
    closest_waypoint,   \* nearest-waypoint search: reference into the waypoint list, 0 for None
    waypoint_distance,  \* nearest-waypoint search: its min_distance
    waypoint_raised,    \* nearest-waypoint search: calculate_distance raised TypeError
    path1,              \* calculate_path_statistics: first argument
    path2,              \* calculate_path_statistics: second argument
    resampled_path1,    \* calculate_path_statistics: references into path1
    resampled_path2,    \* calculate_path_statistics: references into path2
    idx1,               \* calculate_path_statistics: position of the loop in resampled_path1
    closest_point2,     \* calculate_path_statistics: reference into resampled_path2, 0 for None
    distance,           \* calculate_path_statistics: distance of the last match, -1 while unbound
    distances,          \* calculate_path_statistics: position deviations
    depth_differences,  \* calculate_path_statistics: depth deviations
    altitude_differences, \* calculate_path_statistics: altitude deviations
    heading_differences,  \* calculate_path_statistics: heading deviations
    stats,              \* calculate_path_statistics: the returned dict
    planned_waypoints,  \* calculate_accuracy_to_planned: second argument (the first is telemetry_data)
    resampled_telemetry, \* calculate_accuracy_to_planned: references into telemetry_data
    idx_telem,          \* calculate_accuracy_to_planned: position of the loop in resampled_telemetry
    distances_to_planned, \* calculate_accuracy_to_planned: position errors
    depth_errors,       \* calculate_accuracy_to_planned: depth errors
    accuracy_stats,     \* calculate_accuracy_to_planned: the returned dict
    samples,            \* the deviation list a summary is built from
    summaries,          \* the dict built from samples
    endpoints,          \* calculate_distance: the arguments lat1, lon1, lat2, lon2 (degrees)
    distance_m,         \* calculate_distance: the returned distance (m), -1 while unbound
    session_folders,    \* MissionComparator: the session names given to the constructor
    files,              \* the session folders on disk: what each session name loads
    sessions_data,      \* MissionComparator: the loaded sessions, in insertion order
    comparison_stats,   \* MissionComparator: the stored results
    precision_results,  \* compare_all_sessions: the local dict of pairwise results
    accuracy_results,   \* compare_all_sessions: the local dict of accuracy results
    timestamp,          \* export_comparison_data: the local timestamp, None while unbound
    exported            \* export_comparison_data: the files written, or "raised"

resampleVars == << telemetry_data, interval_m, i, resampled, current_distance >>
matchVars == << target_point, path_points, closest_point, min_distance,
                closest_waypoint, waypoint_distance, waypoint_raised >>
statsVars == << path1, path2, resampled_path1, resampled_path2, idx1, closest_point2,
                distance, distances, depth_differences, altitude_differences,
                heading_differences, stats >>

accuracyVars == << planned_waypoints, resampled_telemetry, idx_telem, distances_to_planned,
                   depth_errors, accuracy_stats >>

summaryVars == << samples, summaries >>
distanceVars == << endpoints, distance_m >>
sessionVars == << session_folders, files, sessions_data, comparison_stats,
                  precision_results, accuracy_results, timestamp, exported >>
callerVars == << summaryVars, distanceVars, sessionVars >>

vars == << pc, resampleVars, matchVars, statsVars, accuracyVars, callerVars >>

---------------------------------------------------------------------------
(* Bounds and input domains *)

\* The longest input list of a resampling or matching call.
MaxLen == 4

\* The longest argument list of a comparison call.
MaxPath == 2

\* float('inf'), the initial min_distance: larger than every distance of the model.
Inf == 1000000

None == << >>
Some(v) == << v >>
Val(x) == x[1]

\* Latitudes and longitudes of the inputs, in grid steps.
Lats == {0, 1, 2}
Lons == {0, 1}

\* Intervals of the resampling calls, in centimetres: 0, one grid step, the
\* 0.5 m of the comparisons, two grid steps, the 1.0 m default, and one longer
\* than every path of the model.
Intervals == {0, 30, 50, 60, 100, 5000}

Point(lat, lon, d, a, h) ==
    [latitude |-> lat, longitude |-> lon, depth |-> d, altitude |-> a, heading |-> h]

\* Points that carry a position only, with both coordinates, and the two
\* kinds of point with a missing coordinate.
PositionPoints ==
    { Point(Some(la), Some(lo), None, None, None) : la \in Lats, lo \in Lons }
InvalidPoints ==
    { Point(None, Some(0), None, None, None), Point(Some(0), None, None, None, None) }

\* All sequences over S of length at most n.
SeqUpTo(S, n) == UNION { [1..m -> S] : m \in 0..n }

---------------------------------------------------------------------------
(* calculate_distance *)

RECURSIVE ISqrtIn(_, _, _)
\* The largest r in lo..hi with r*r <= n, given lo*lo <= n < (hi+1)*(hi+1).
ISqrtIn(n, lo, hi) ==
    IF lo = hi THEN lo
    ELSE LET mid == (lo + hi + 1) \div 2
         IN  IF mid * mid <= n THEN ISqrtIn(n, mid, hi) ELSE ISqrtIn(n, lo, mid - 1)

\* math.sqrt on the fixed-point grid: the integer square root.
ISqrt(n) == ISqrtIn(n, 0, IF n < 46340 THEN n ELSE 46340)

\* The sums dlat^2 + dlon^2 that two positions of the grid can give.
SquareSums ==
    { (la2 - la1) * (la2 - la1) + (lo2 - lo1) * (lo2 - lo1) :
          la1 \in Lats, la2 \in Lats, lo1 \in Lons, lo2 \in Lons }

\* 30*sqrt(a) cm rounded down to a whole centimetre, tabulated over SquareSums.
GridDistance == [a \in SquareSums |-> ISqrt(900 * a)]

\* The haversine distance of two positions given in grid steps of 0.30 m, in
\* centimetres.  For arguments within a few metres of latitude 0 the
\* formula's cos(lat1)*cos(lat2) is 1 and sin and atan2 are linear to far
\* below a centimetre, so R*c = R*sqrt(dlat_rad^2 + dlon_rad^2), which is
\* 30*sqrt(dlat^2 + dlon^2) cm, rounded down to a whole centimetre.
calculate_distance(lat1, lon1, lat2, lon2) ==
    LET dlat == lat2 - lat1
        dlon == lon2 - lon1
        a    == dlat * dlat + dlon * dlon
    IN  GridDistance[a]

HasPosition(point) == point.latitude # None /\ point.longitude # None

---------------------------------------------------------------------------
(* resample_path_by_distance *)

\* ResampleStart without the first point: the list starts empty.
ResampleStartEmpty == [resampled |-> << >>, current_distance |-> 0]

\* Lines 200-201: the state of the loop before its first iteration.
ResampleStart == [resampled |-> << 1 >>, current_distance |-> 0]

\* ResampleStep appending prev_point in place of curr_point.
ResampleStepPrev(st, data, interval, j) ==
    LET prev_point == data[j - 1]
        curr_point == data[j]
    IN  IF HasPosition(prev_point) /\ HasPosition(curr_point)
        THEN LET accumulated == st.current_distance +
                     calculate_distance(Val(prev_point.latitude), Val(prev_point.longitude),
                                        Val(curr_point.latitude), Val(curr_point.longitude))
             IN  IF accumulated >= interval
                 THEN [resampled |-> Append(st.resampled, j - 1), current_distance |-> 0]
                 ELSE [resampled |-> st.resampled, current_distance |-> accumulated]
        ELSE st

\* ResampleStep that keeps the accumulator after an emission.
ResampleStepNoReset(st, data, interval, j) ==
    LET prev_point == data[j - 1]
        curr_point == data[j]
    IN  IF HasPosition(prev_point) /\ HasPosition(curr_point)
        THEN LET accumulated == st.current_distance +
                     calculate_distance(Val(prev_point.latitude), Val(prev_point.longitude),
                                        Val(curr_point.latitude), Val(curr_point.longitude))
             IN  IF accumulated >= interval
                 THEN [resampled |-> Append(st.resampled, j), current_distance |-> accumulated]
                 ELSE [resampled |-> st.resampled, current_distance |-> accumulated]
        ELSE st

\* ResampleStep comparing with > in place of >=.
ResampleStepStrict(st, data, interval, j) ==
    LET prev_point == data[j - 1]
        curr_point == data[j]
    IN  IF HasPosition(prev_point) /\ HasPosition(curr_point)
        THEN LET accumulated == st.current_distance +
                     calculate_distance(Val(prev_point.latitude), Val(prev_point.longitude),
                                        Val(curr_point.latitude), Val(curr_point.longitude))
             IN  IF accumulated > interval
                 THEN [resampled |-> Append(st.resampled, j), current_distance |-> 0]
                 ELSE [resampled |-> st.resampled, current_distance |-> accumulated]
        ELSE st

\* ResampleStep that clears the accumulator at a point without a position.
ResampleStepResetOnInvalid(st, data, interval, j) ==
    LET prev_point == data[j - 1]
        curr_point == data[j]
    IN  IF HasPosition(prev_point) /\ HasPosition(curr_point)
        THEN LET accumulated == st.current_distance +
                     calculate_distance(Val(prev_point.latitude), Val(prev_point.longitude),
                                        Val(curr_point.latitude), Val(curr_point.longitude))
             IN  IF accumulated >= interval
                 THEN [resampled |-> Append(st.resampled, j), current_distance |-> 0]
                 ELSE [resampled |-> st.resampled, current_distance |-> accumulated]
        ELSE [resampled |-> st.resampled, current_distance |-> 0]

\* ResampleStep that always keeps the last point of the path.
ResampleStepKeepLast(st, data, interval, j) ==
    LET prev_point == data[j - 1]
        curr_point == data[j]
    IN  IF HasPosition(prev_point) /\ HasPosition(curr_point)
        THEN LET accumulated == st.current_distance +
                     calculate_distance(Val(prev_point.latitude), Val(prev_point.longitude),
                                        Val(curr_point.latitude), Val(curr_point.longitude))
             IN  IF accumulated >= interval \/ j = Len(data)
                 THEN [resampled |-> Append(st.resampled, j), current_distance |-> 0]
                 ELSE [resampled |-> st.resampled, current_distance |-> accumulated]
        ELSE st

\* ResampleStep that asks for a position of curr_point only, and measures a
\* segment after a point without a position as zero.
ResampleStepCurrOnly(st, data, interval, j) ==
    LET prev_point == data[j - 1]
        curr_point == data[j]
    IN  IF HasPosition(curr_point)
        THEN LET segment_distance ==
                     IF HasPosition(prev_point)
                     THEN calculate_distance(Val(prev_point.latitude),
                                             Val(prev_point.longitude),
                                             Val(curr_point.latitude),
                                             Val(curr_point.longitude))
                     ELSE 0
                 accumulated == st.current_distance + segment_distance
             IN  IF accumulated >= interval
                 THEN [resampled |-> Append(st.resampled, j), current_distance |-> 0]
                 ELSE [resampled |-> st.resampled, current_distance |-> accumulated]
        ELSE st

\* Lines 204-219: one iteration of the loop, for the point at position j
\* (Python's index i = j - 1), from the loop state st.
ResampleStep(st, data, interval, j) ==
    LET prev_point == data[j - 1]
        curr_point == data[j]
    IN  IF HasPosition(prev_point) /\ HasPosition(curr_point)
        THEN LET segment_distance ==
                     calculate_distance(Val(prev_point.latitude), Val(prev_point.longitude),
                                        Val(curr_point.latitude), Val(curr_point.longitude))
                 accumulated == st.current_distance + segment_distance
             IN  IF accumulated >= interval
                 THEN [resampled |-> Append(st.resampled, j), current_distance |-> 0]
                 ELSE [resampled |-> st.resampled, current_distance |-> accumulated]
        ELSE st

\* Lines 197-201: the empty input returns [] at once; otherwise the first
\* point is taken and the loop starts at the second.
ResampleEnter ==
    /\ pc = "resample_call"
    /\ IF telemetry_data = << >>
       THEN /\ resampled' = << >>
            /\ pc' = "resample_return"
            /\ UNCHANGED << i, current_distance >>
       ELSE /\ resampled' = ResampleStart.resampled
            /\ current_distance' = ResampleStart.current_distance
            /\ i' = 2
            /\ pc' = "resample_loop"
    /\ UNCHANGED << telemetry_data, interval_m, matchVars, statsVars, accuracyVars, callerVars >>

\* Lines 203-219: one iteration.
ResampleIter ==
    /\ pc = "resample_loop"
    /\ i <= Len(telemetry_data)
    /\ LET st == ResampleStep([resampled |-> resampled, current_distance |-> current_distance],
                              telemetry_data, interval_m, i)
       IN  /\ resampled' = st.resampled
           /\ current_distance' = st.current_distance
    /\ i' = i + 1
    /\ UNCHANGED << pc, telemetry_data, interval_m, matchVars, statsVars, accuracyVars, callerVars >>

\* ResampleReturn that leaves the resampled points in the list it was given.
ResampleReturnInPlace ==
    /\ pc = "resample_loop"
    /\ i > Len(telemetry_data)
    /\ pc' = "resample_return"
    /\ telemetry_data' = [k \in 1..Len(resampled) |-> telemetry_data[resampled[k]]]
    /\ UNCHANGED << interval_m, i, resampled, current_distance,
                    matchVars, statsVars, accuracyVars, callerVars >>

\* Line 221: the loop is over, the list is returned.
ResampleReturn ==
    /\ pc = "resample_loop"
    /\ i > Len(telemetry_data)
    /\ pc' = "resample_return"
    /\ UNCHANGED << resampleVars, matchVars, statsVars, accuracyVars, callerVars >>

\* No resampling call in flight.
ResampleIdle ==
    /\ telemetry_data = << >>
    /\ interval_m = 0
    /\ i = 0
    /\ resampled = << >>
    /\ current_distance = 0

\* No matching call in flight.
MatchIdle ==
    /\ target_point = Point(None, None, None, None, None)
    /\ path_points = << >>
    /\ closest_point = 0
    /\ min_distance = Inf
    /\ closest_waypoint = 0
    /\ waypoint_distance = Inf
    /\ waypoint_raised = FALSE

\* The locals of calculate_path_statistics before the call.
StatsLocalsUnset ==
    /\ resampled_path1 = << >>
    /\ resampled_path2 = << >>
    /\ idx1 = 0
    /\ closest_point2 = 0
    /\ distance = -1
    /\ distances = << >>
    /\ depth_differences = << >>
    /\ altitude_differences = << >>
    /\ heading_differences = << >>
    /\ stats = << >>

\* No comparison call in flight.
StatsIdle ==
    /\ path1 = << >>
    /\ path2 = << >>
    /\ StatsLocalsUnset

\* The locals of calculate_accuracy_to_planned before the call.
AccuracyLocalsUnset ==
    /\ resampled_telemetry = << >>
    /\ idx_telem = 0
    /\ distances_to_planned = << >>
    /\ depth_errors = << >>
    /\ accuracy_stats = << >>

\* No accuracy call in flight.
AccuracyIdle ==
    /\ planned_waypoints = << >>
    /\ AccuracyLocalsUnset

\* No summary, no distance call and no session of a comparator in the state.
SummaryIdle == samples = << >> /\ summaries = << >>
DistanceIdle == endpoints = << >> /\ distance_m = -1
SessionsIdle ==
    /\ session_folders = << >>
    /\ files = << >>
    /\ sessions_data = << >>
    /\ comparison_stats = << >>
    /\ precision_results = << >>
    /\ accuracy_results = << >>
    /\ timestamp = << >>
    /\ exported = {}
CallerIdle == SummaryIdle /\ DistanceIdle /\ SessionsIdle

InitResample ==
    /\ pc = "resample_call"
    /\ telemetry_data \in SeqUpTo(PositionPoints \cup InvalidPoints, MaxLen)
    /\ interval_m \in Intervals
    /\ i = 0
    /\ resampled = << >>
    /\ current_distance = 0
    /\ MatchIdle
    /\ StatsIdle
    /\ AccuracyIdle
    /\ CallerIdle

NextResample == ResampleEnter \/ ResampleIter \/ ResampleReturn

SpecResample == InitResample /\ [][NextResample]_vars


---------------------------------------------------------------------------
(* Properties of resample_path_by_distance, under SpecResample *)

Range(seq) == { seq[k] : k \in 1..Len(seq) }

Returned == pc = "resample_return"

\* The segment ending at position j can be measured: both its ends have a position.
Measurable(data, j) == HasPosition(data[j - 1]) /\ HasPosition(data[j])

\* The length of the segment of the input path that ends at position j; a
\* segment that cannot be measured counts as 0, the least it can be.
SegmentDistance(data, j) ==
    IF Measurable(data, j)
    THEN calculate_distance(Val(data[j - 1].latitude), Val(data[j - 1].longitude),
                            Val(data[j].latitude), Val(data[j].longitude))
    ELSE 0

RECURSIVE PathLength(_, _, _)
\* The length of the input path from position a to position b >= a.
PathLength(data, a, b) ==
    IF b <= a THEN 0 ELSE PathLength(data, a, b - 1) + SegmentDistance(data, b)

TotalLength(data) == IF data = << >> THEN 0 ELSE PathLength(data, 1, Len(data))

\* C1: the output of resample_path_by_distance is a subsequence of the input:
\* every output point is one of the input records, the output points are in
\* the input's order (strictly increasing positions), and the output is never
\* longer than the input.  It holds at every point of the loop.
C1_Subsequence ==
    /\ \A k \in 1..Len(resampled) : resampled[k] \in 1..Len(telemetry_data)
    /\ \A k \in 1..(Len(resampled) - 1) : resampled[k] < resampled[k + 1]
    /\ Len(resampled) <= Len(telemetry_data)

\* A returned output that kept several points and dropped others.
C1_Witness ==
    /\ Returned
    /\ Len(resampled) >= 2
    /\ Len(resampled) < Len(telemetry_data)

\* C2: any two consecutive output points are separated by at least the
\* interval, measured as the sum of the segment distances of the input path
\* between them.
C2_MinSpacing ==
    \A k \in 1..(Len(resampled) - 1) :
        PathLength(telemetry_data, resampled[k], resampled[k + 1]) >= interval_m

\* A returned output with a point emitted after several segments were added up
\* and a second point emitted after it, for a positive interval.
C2_Witness ==
    /\ Returned
    /\ interval_m > 0
    /\ Len(resampled) >= 3
    /\ resampled[2] > resampled[1] + 1

RECURSIVE RefEmitted(_, _, _), RefLastEmitted(_, _, _)
\* The reference algorithm, stated without a running accumulator: the first
\* point is emitted, and a later point is emitted exactly when the distance
\* from its predecessor in the input can be measured and the segment
\* distances added since the last emitted point reach the interval.
RefEmitted(data, interval, j) ==
    IF j = 1 THEN TRUE
    ELSE /\ Measurable(data, j)
         /\ PathLength(data, RefLastEmitted(data, interval, j - 1), j) >= interval
\* The last point emitted by the reference among the positions 1..j.
RefLastEmitted(data, interval, j) ==
    IF RefEmitted(data, interval, j) THEN j ELSE RefLastEmitted(data, interval, j - 1)

RefResample(data, interval) ==
    SelectSeq([k \in 1..Len(data) |-> k], LAMBDA j : RefEmitted(data, interval, j))

Processes(j) ==
    \/ pc = "resample_call" /\ telemetry_data # << >> /\ j = 1
    \/ pc = "resample_loop" /\ j = i

\* C4 as stated: a point with a missing latitude or longitude is skipped: it is
\* not emitted, and processing it neither resets nor advances the accumulator.
C4_Original ==
    [][\A j \in 1..Len(telemetry_data) :
          (Processes(j) /\ ~HasPosition(telemetry_data[j])) =>
              (resampled' = resampled /\ current_distance' = current_distance)]_vars

\* C4, amended: a point with a missing latitude or longitude other than the
\* first input point is not emitted, and processing it neither resets nor
\* advances the accumulator; the first input point is emitted even when its
\* position is missing.
C4_SkipsInvalidAfterFirst ==
    [][/\ \A j \in 2..Len(telemetry_data) :
             (Processes(j) /\ ~HasPosition(telemetry_data[j])) =>
                 (resampled' = resampled /\ current_distance' = current_distance)
       /\ (Processes(1) /\ ~HasPosition(telemetry_data[1])) => resampled' = << 1 >>]_vars

\* A point without a position, not the first, has just been processed while the
\* accumulator held a distance, and the accumulator still holds it.
C4_Witness ==
    /\ pc = "resample_loop"
    /\ i >= 3
    /\ ~HasPosition(telemetry_data[i - 1])
    /\ current_distance > 0
    /\ resampled = << 1 >>

\* C5 as stated: with interval 0 the output is the full input, every input
\* point in order.
C5_Original ==
    (Returned /\ interval_m = 0) =>
        resampled = [k \in 1..Len(telemetry_data) |-> k]

\* C5, amended: with interval 0 the output holds, in order, the first input
\* point and exactly those later points that have a position and whose
\* immediate predecessor has a position; so it is the full input when every
\* point has a position.
C5_ZeroInterval ==
    (Returned /\ interval_m = 0) =>
        /\ \A j \in 1..Len(telemetry_data) :
              j \in Range(resampled) <=> (j = 1 \/ Measurable(telemetry_data, j))
        /\ (\A j \in 1..Len(telemetry_data) : HasPosition(telemetry_data[j]))
              => resampled = [k \in 1..Len(telemetry_data) |-> k]

\* Interval 0 returned the full input of a path that stays at one position for
\* a segment.
C5_Witness ==
    /\ Returned
    /\ interval_m = 0
    /\ Len(telemetry_data) >= 3
    /\ \A j \in 1..Len(telemetry_data) : HasPosition(telemetry_data[j])
    /\ telemetry_data[2] = telemetry_data[1]
    /\ resampled = [k \in 1..Len(telemetry_data) |-> k]

\* C6: with an interval larger than the total length of a non-empty input path
\* the output is exactly the first input point.
C6_LongInterval ==
    (Returned /\ telemetry_data # << >> /\ interval_m > TotalLength(telemetry_data)) =>
        resampled = << 1 >>

\* A path of several segments with a positive length shorter than the interval
\* has been resampled to its first point.
C6_Witness ==
    /\ Returned
    /\ Len(telemetry_data) >= 3
    /\ SegmentDistance(telemetry_data, 2) > 0
    /\ SegmentDistance(telemetry_data, 3) > 0
    /\ interval_m > TotalLength(telemetry_data)
    /\ resampled = << 1 >>

\* C7: an empty input returns an empty list and a single-point input returns a
\* list holding exactly that point, for any interval.
C7_EmptyAndSingle ==
    Returned =>
        /\ telemetry_data = << >> => resampled = << >>
        /\ Len(telemetry_data) = 1 => resampled = << 1 >>

\* A single-point input has been resampled with a positive interval.
C7_Witness ==
    /\ Returned
    /\ Len(telemetry_data) = 1
    /\ interval_m > 0
    /\ resampled = << 1 >>

---------------------------------------------------------------------------
(* find_closest_point, and the nearest-waypoint search of
   calculate_accuracy_to_planned *)

\* The distance from the query to a candidate that has a position.
DistanceTo(target, point) ==
    calculate_distance(Val(target.latitude), Val(target.longitude),
                       Val(point.latitude), Val(point.longitude))

\* Lines 180-181: the state of the search before its first candidate.
FindClosestStart == [closest_point |-> 0, min_distance |-> Inf]

\* FindClosestStep comparing with <= in place of <.
FindClosestStepLastWins(st, target, points, j) ==
    LET point == points[j]
    IN  IF HasPosition(point)
        THEN LET distance_to == DistanceTo(target, point)
             IN  IF distance_to <= st.min_distance
                 THEN [closest_point |-> j, min_distance |-> distance_to]
                 ELSE st
        ELSE st

\* FindClosestStep that takes every candidate with a position as the closest.
FindClosestStepNoCompare(st, target, points, j) ==
    LET point == points[j]
    IN  IF HasPosition(point)
        THEN [closest_point |-> j, min_distance |-> DistanceTo(target, point)]
        ELSE st

\* Lines 184-191: one iteration of the search, for the candidate at position j.
FindClosestStep(st, target, points, j) ==
    LET point == points[j]
    IN  IF HasPosition(point)
        THEN LET distance_to == DistanceTo(target, point)
             IN  IF distance_to < st.min_distance
                 THEN [closest_point |-> j, min_distance |-> distance_to]
                 ELSE st
        ELSE st

RECURSIVE FindClosestLoop(_, _, _)
\* Lines 183-191: the state of the search after the first j candidates.
FindClosestLoop(target, points, j) ==
    IF j = 0 THEN FindClosestStart
    ELSE LET st == FindClosestLoop(target, points, j - 1)
         IN  FindClosestStep(st, target, points, j)

\* Lines 178-193: the pair (closest_point, min_distance) returned.
find_closest_point(target, points) == FindClosestLoop(target, points, Len(points))

\* Lines 313-314: the state of the waypoint search before its first waypoint.
NearestWaypointStart == [closest_waypoint |-> 0, min_distance |-> Inf, raised |-> FALSE]

\* Lines 317-323: one iteration of the waypoint search.  The waypoint's
\* coordinates go to calculate_distance unchecked, and math.radians raises
\* TypeError on None, which ends the search and the call.
NearestWaypointStep(st, telem_point, waypoints, j) ==
    LET waypoint == waypoints[j]
    IN  IF st.raised THEN st
        ELSE IF ~HasPosition(waypoint) THEN [st EXCEPT !.raised = TRUE]
        ELSE LET distance_to == DistanceTo(telem_point, waypoint)
             IN  IF distance_to < st.min_distance
                 THEN [closest_waypoint |-> j, min_distance |-> distance_to,
                       raised |-> FALSE]
                 ELSE st

RECURSIVE NearestWaypointLoop(_, _, _)
\* Lines 316-323: the state of the waypoint search after the first j waypoints.
NearestWaypointLoop(telem_point, waypoints, j) ==
    IF j = 0 THEN NearestWaypointStart
    ELSE LET st == NearestWaypointLoop(telem_point, waypoints, j - 1)
         IN  NearestWaypointStep(st, telem_point, waypoints, j)

\* Lines 313-323: the search for the waypoint closest to one telemetry point.
nearest_waypoint(telem_point, waypoints) ==
    NearestWaypointLoop(telem_point, waypoints, Len(waypoints))

\* A call find_closest_point(target_point, path_points), lines 178-193.
FindClosestPoint ==
    /\ pc = "match_call"
    /\ LET found == find_closest_point(target_point, path_points)
       IN  /\ closest_point' = found.closest_point
           /\ min_distance' = found.min_distance
    /\ pc' = "match_return"
    /\ UNCHANGED << target_point, path_points, closest_waypoint, waypoint_distance,
                    waypoint_raised, resampleVars, statsVars, accuracyVars, callerVars >>

\* The search of lines 313-323 with the same query as telem_point and the same
\* candidates as planned_waypoints.
NearestWaypoint ==
    /\ pc = "match_return"
    /\ LET found == nearest_waypoint(target_point, path_points)
       IN  /\ closest_waypoint' = found.closest_waypoint
           /\ waypoint_distance' = found.min_distance
           /\ waypoint_raised' = found.raised
    /\ pc' = "waypoint_return"
    /\ UNCHANGED << target_point, path_points, closest_point, min_distance,
                    resampleVars, statsVars, accuracyVars, callerVars >>

\* The callers pass a query that has a position (lines 239 and 311).
InitMatch ==
    /\ pc = "match_call"
    /\ target_point \in PositionPoints
    /\ path_points \in SeqUpTo(PositionPoints \cup InvalidPoints, MaxLen)
    /\ closest_point = 0
    /\ min_distance = Inf
    /\ closest_waypoint = 0
    /\ waypoint_distance = Inf
    /\ waypoint_raised = FALSE
    /\ ResampleIdle
    /\ StatsIdle
    /\ AccuracyIdle
    /\ CallerIdle

NextMatch == FindClosestPoint \/ NearestWaypoint

SpecMatch == InitMatch /\ [][NextMatch]_vars

---------------------------------------------------------------------------
(* Properties of nearest-point matching, under SpecMatch *)

\* The candidates of path_points that have a position.
ValidCandidates == { j \in 1..Len(path_points) : HasPosition(path_points[j]) }

\* find_closest_point has returned.
Matched == pc \in {"match_return", "waypoint_return"}

\* C8: find_closest_point returns a candidate of minimum distance together with
\* that distance: when a candidate with a position exists the returned point is
\* a member of the list, the returned distance is its distance and is <= the
\* distance to every candidate with a position; a list of a single candidate
\* returns that candidate whatever its distance.
C8_ClosestIsMinimum ==
    (Matched /\ ValidCandidates # {}) =>
        /\ closest_point \in ValidCandidates
        /\ min_distance = DistanceTo(target_point, path_points[closest_point])
        /\ \A j \in ValidCandidates :
              min_distance <= DistanceTo(target_point, path_points[j])
        /\ Len(path_points) = 1 => closest_point = 1

\* The closest candidate was found after a farther one and before another
\* farther one, with a candidate without a position in the list.
C8_Witness ==
    /\ Matched
    /\ Len(path_points) >= 4
    /\ closest_point = 2
    /\ HasPosition(path_points[1])
    /\ DistanceTo(target_point, path_points[1]) > min_distance
    /\ ValidCandidates # 1..Len(path_points)
    /\ \E j \in ValidCandidates : j > 2 /\ DistanceTo(target_point, path_points[j]) > min_distance

\* Two different candidates with a position are at the minimum distance of
\* the candidates with a position.
SeveralAtMinimum ==
    \E j \in ValidCandidates : \E k \in ValidCandidates :
        /\ j < k
        /\ DistanceTo(target_point, path_points[j]) = DistanceTo(target_point, path_points[k])
        /\ \A m \in ValidCandidates :
              DistanceTo(target_point, path_points[j]) <= DistanceTo(target_point, path_points[m])

\* C9 as stated: when several candidates with a position are at the same
\* minimum distance from the query, matching returns the first of them in
\* sequence order, both for find_closest_point and for the nearest-waypoint
\* search of calculate_accuracy_to_planned.
C9_Original ==
    /\ (Matched /\ SeveralAtMinimum) =>
          /\ closest_point \in ValidCandidates
          /\ \A j \in ValidCandidates :
                DistanceTo(target_point, path_points[j]) = min_distance => closest_point <= j
    /\ (pc = "waypoint_return" /\ SeveralAtMinimum) =>
          /\ ~waypoint_raised
          /\ closest_waypoint \in ValidCandidates
          /\ \A j \in ValidCandidates :
                DistanceTo(target_point, path_points[j]) >= waypoint_distance
          /\ \A j \in ValidCandidates :
                DistanceTo(target_point, path_points[j]) = waypoint_distance
                    => closest_waypoint <= j

\* C9 where the nearest-waypoint search returns: when several candidates with
\* a position are at the same minimum distance from the query, the match is
\* the first of them in sequence order, both for find_closest_point and for a
\* nearest-waypoint search of calculate_accuracy_to_planned that did not raise.
C9_FirstWinsTies ==
    /\ (Matched /\ ValidCandidates # {}) =>
          \A j \in ValidCandidates :
              DistanceTo(target_point, path_points[j]) = min_distance => closest_point <= j
    /\ (pc = "waypoint_return" /\ ~waypoint_raised /\ path_points # << >>) =>
          /\ closest_waypoint \in 1..Len(path_points)
          /\ \A j \in 1..Len(path_points) :
                DistanceTo(target_point, path_points[j]) >= waypoint_distance
          /\ \A j \in 1..Len(path_points) :
                DistanceTo(target_point, path_points[j]) = waypoint_distance
                    => closest_waypoint <= j

\* Both searches have met two different candidates at the same minimum
\* distance, after a farther one, and both returned the first of the two.
C9_Witness ==
    /\ pc = "waypoint_return"
    /\ ~waypoint_raised
    /\ closest_point = 2
    /\ closest_waypoint = 2
    /\ DistanceTo(target_point, path_points[1]) > min_distance
    /\ \E j \in 3..Len(path_points) :
          /\ path_points[j] # path_points[2]
          /\ DistanceTo(target_point, path_points[j]) = min_distance

\* The closest candidate and its distance when the candidates without a
\* position are removed from the list: the first candidate with a position at
\* the least distance, or None and float('inf') when there is none.
ClosestOfValid ==
    IF ValidCandidates = {}
    THEN [closest |-> 0, distance |-> Inf]
    ELSE LET best == CHOOSE j \in ValidCandidates :
                         \A k \in ValidCandidates :
                             \/ DistanceTo(target_point, path_points[j])
                                    < DistanceTo(target_point, path_points[k])
                             \/ /\ DistanceTo(target_point, path_points[j])
                                      = DistanceTo(target_point, path_points[k])
                                /\ j <= k
         IN  [closest |-> best, distance |-> DistanceTo(target_point, path_points[best])]

\* C11: candidates lacking a valid latitude/longitude are excluded from
\* nearest-point matching and never returned as the match, both for the
\* trajectory candidates of find_closest_point and for the waypoint list of
\* calculate_accuracy_to_planned: the match is the one the candidates with a
\* position alone would give, and their presence never makes the match raise.
C11_InvalidExcluded ==
    /\ Matched =>
          /\ closest_point = ClosestOfValid.closest
          /\ min_distance = ClosestOfValid.distance
    /\ pc = "waypoint_return" =>
          /\ ~waypoint_raised
          /\ closest_waypoint = ClosestOfValid.closest
          /\ waypoint_distance = ClosestOfValid.distance

\* C11 for find_closest_point alone: the candidates without a position are
\* skipped and the match is the one the candidates with a position would give.
C11_TrajectoryCandidates ==
    Matched =>
        /\ closest_point = ClosestOfValid.closest
        /\ min_distance = ClosestOfValid.distance

\* The waypoint search met a waypoint without a position after one with a
\* position, and raised; find_closest_point returned the one with a position.
C11_Witness ==
    /\ pc = "waypoint_return"
    /\ waypoint_raised
    /\ closest_point # 0
    /\ ValidCandidates # 1..Len(path_points)
    /\ HasPosition(path_points[1])

---------------------------------------------------------------------------
(* calculate_path_statistics *)

\* The default interval_m of resample_path_by_distance (1.0), in centimetres.
OneMetre == 100

\* The 0.5 of lines 229, 230 and 305, in centimetres.
HalfMetre == 50

RECURSIVE ResampleLoop(_, _, _)
\* Lines 200-219: the state of the resampling loop after the points 1..j.
ResampleLoop(data, interval, j) ==
    IF j = 1 THEN ResampleStart
    ELSE LET st == ResampleLoop(data, interval, j - 1)
         IN  ResampleStep(st, data, interval, j)

\* Lines 195-221: the list returned, as references into data.
resample_path_by_distance(data, interval) ==
    IF data = << >> THEN << >> ELSE ResampleLoop(data, interval, Len(data)).resampled

\* The dicts a list of references refers to.
Deref(data, refs) == [k \in 1..Len(refs) |-> data[refs[k]]]

Abs(x) == IF x < 0 THEN -x ELSE x

\* HeadingDiff without the wraparound of lines 256-257.
HeadingDiffNoWrap(a, b) == Abs(a - b)

\* Lines 255-257: the heading difference with its wraparound.
HeadingDiff(a, b) ==
    LET heading_diff == Abs(a - b)
    IN  IF heading_diff > 180 THEN 360 - heading_diff ELSE heading_diff

\* RecordSamples without the test of closest_point2 against None: the distance
\* returned is recorded whatever the point returned.
RecordSamplesUnchecked(lists, point1, found, candidates) ==
    [lists EXCEPT !.distances = Append(@, found.min_distance)]

\* RecordSamples with the altitude and heading tests nested under the depth
\* test: a pair without both depths records neither of the other two.
RecordSamplesNested(lists, point1, found, candidates) ==
    IF found.closest_point # 0
    THEN LET closest == candidates[found.closest_point]
             both_depths == point1.depth # None /\ closest.depth # None
         IN  [distances |-> Append(lists.distances, found.min_distance),
              depth_differences |->
                  IF both_depths
                  THEN Append(lists.depth_differences,
                              Abs(Val(point1.depth) - Val(closest.depth)))
                  ELSE lists.depth_differences,
              altitude_differences |->
                  IF both_depths /\ point1.altitude # None /\ closest.altitude # None
                  THEN Append(lists.altitude_differences,
                              Abs(Val(point1.altitude) - Val(closest.altitude)))
                  ELSE lists.altitude_differences,
              heading_differences |->
                  IF both_depths /\ point1.heading # None /\ closest.heading # None
                  THEN Append(lists.heading_differences,
                              HeadingDiff(Val(point1.heading), Val(closest.heading)))
                  ELSE lists.heading_differences]
    ELSE lists

\* Lines 242-258: what one match adds to the four lists; found is the pair
\* returned by find_closest_point for point1 over candidates.
RecordSamples(lists, point1, found, candidates) ==
    IF found.closest_point # 0
    THEN LET closest == candidates[found.closest_point]
         IN  [distances |-> Append(lists.distances, found.min_distance),
              depth_differences |->
                  IF point1.depth # None /\ closest.depth # None
                  THEN Append(lists.depth_differences,
                              Abs(Val(point1.depth) - Val(closest.depth)))
                  ELSE lists.depth_differences,
              altitude_differences |->
                  IF point1.altitude # None /\ closest.altitude # None
                  THEN Append(lists.altitude_differences,
                              Abs(Val(point1.altitude) - Val(closest.altitude)))
                  ELSE lists.altitude_differences,
              heading_differences |->
                  IF point1.heading # None /\ closest.heading # None
                  THEN Append(lists.heading_differences,
                              HeadingDiff(Val(point1.heading), Val(closest.heading)))
                  ELSE lists.heading_differences]
    ELSE lists

RECURSIVE SeqMax(_), SeqMin(_), SeqSum(_), SumOfSquares(_), SquaredDeviations(_, _, _)
\* max() and min() of a non-empty list.
SeqMax(seq) ==
    IF Len(seq) = 1 THEN seq[1]
    ELSE LET m == SeqMax(Tail(seq)) IN IF seq[1] > m THEN seq[1] ELSE m
SeqMin(seq) ==
    IF Len(seq) = 1 THEN seq[1]
    ELSE LET m == SeqMin(Tail(seq)) IN IF seq[1] < m THEN seq[1] ELSE m

\* sum(seq) and sum(d**2 for d in seq).
SeqSum(seq) == IF seq = << >> THEN 0 ELSE seq[1] + SeqSum(Tail(seq))
SumOfSquares(seq) == IF seq = << >> THEN 0 ELSE seq[1] * seq[1] + SumOfSquares(Tail(seq))

\* The sum over seq of (count*x - total)^2, which is count^2 times the sum of
\* the squared deviations from the mean total/count.
SquaredDeviations(seq, count, total) ==
    IF seq = << >> THEN 0
    ELSE (count * seq[1] - total) * (count * seq[1] - total)
             + SquaredDeviations(Tail(seq), count, total)

\* sorted(seq).
Sorted(seq) == SortSeq(seq, LAMBDA x, y : x < y)

(* The floats of a summary are fixed-point numbers counting tenths of the
   unit of the list (centimetre, metre of depth or altitude, degree), rounded
   down. *)

\* statistics.mean.
Mean(seq) == (10 * SeqSum(seq)) \div Len(seq)

\* statistics.median: the middle value of the sorted list, the mean of the two
\* middle values when the count is even.
Median(seq) ==
    LET ordered == Sorted(seq)
        count == Len(seq)
    IN  IF count % 2 = 1
        THEN 10 * ordered[(count + 1) \div 2]
        ELSE (10 * (ordered[count \div 2] + ordered[count \div 2 + 1])) \div 2

\* StdevOrZero with the population divisor len(seq) in place of len(seq) - 1.
StdevOrZeroPopulation(seq) ==
    LET count == Len(seq)
    IN  IF count > 1
        THEN ISqrt((100 * SquaredDeviations(seq, count, SeqSum(seq)))
                       \div (count * count * count))
        ELSE 0

\* statistics.stdev(seq) if len(seq) > 1 else 0: the sample standard
\* deviation, the square root of the squared deviations over len(seq) - 1.
StdevOrZero(seq) ==
    LET count == Len(seq)
    IN  IF count > 1
        THEN ISqrt((100 * SquaredDeviations(seq, count, SeqSum(seq)))
                       \div (count * count * (count - 1)))
        ELSE 0

\* math.sqrt(sum(d**2 for d in seq) / len(seq)).
Rms(seq) == ISqrt((100 * SumOfSquares(seq)) \div Len(seq))

\* Percentile95 as the value at index int(0.95 * (len(seq) - 1)) of the sorted
\* list, for every length.
Percentile95OfGaps(seq) == 10 * Sorted(seq)[(95 * (Len(seq) - 1)) \div 100 + 1]

\* sorted(seq)[int(0.95 * len(seq))] if len(seq) > 20 else max(seq).
Percentile95(seq) ==
    IF Len(seq) > 20
    THEN 10 * Sorted(seq)[(95 * Len(seq)) \div 100 + 1]
    ELSE 10 * SeqMax(seq)

\* EmptyResult as a dict with a zero-filled position group.
ZeroFilledResult ==
    [position_stats |-> [mean_distance_m |-> 0, median_distance_m |-> 0,
                         std_distance_m |-> 0, max_distance_m |-> 0,
                         min_distance_m |-> 0, rms_distance_m |-> 0,
                         percentile_95_m |-> 0]]

\* Line 226 and line 302: the empty dict returned for an empty argument.
EmptyResult == << >>

\* Lines 263-271: the entries of position_stats.
PositionStats(seq) ==
    [mean_distance_m |-> Mean(seq),
     median_distance_m |-> Median(seq),
     std_distance_m |-> StdevOrZero(seq),
     max_distance_m |-> 10 * SeqMax(seq),
     min_distance_m |-> 10 * SeqMin(seq),
     rms_distance_m |-> Rms(seq),
     percentile_95_m |-> Percentile95(seq)]

\* DiffStats with the minimum next to the maximum.
DiffStatsWithMin(seq) ==
    [mean_diff_m |-> Mean(seq),
     median_diff_m |-> Median(seq),
     std_diff_m |-> StdevOrZero(seq),
     max_diff_m |-> 10 * SeqMax(seq),
     min_diff_m |-> 10 * SeqMin(seq)]

\* Lines 274-279 and 282-287: the entries of depth_stats and altitude_stats.
DiffStats(seq) ==
    [mean_diff_m |-> Mean(seq),
     median_diff_m |-> Median(seq),
     std_diff_m |-> StdevOrZero(seq),
     max_diff_m |-> 10 * SeqMax(seq)]

\* Lines 290-295: the entries of heading_stats.
HeadingStats(seq) ==
    [mean_diff_deg |-> Mean(seq),
     median_diff_deg |-> Median(seq),
     std_diff_deg |-> StdevOrZero(seq),
     max_diff_deg |-> 10 * SeqMax(seq)]

\* PathStatsDict with a zero-filled summary for each list that is empty.
PathStatsDictZeroFilled(lists) ==
    [key \in {"position_stats", "depth_stats", "altitude_stats", "heading_stats"} |->
        CASE key = "position_stats" ->
                 IF lists.distances # << >> THEN PositionStats(lists.distances)
                 ELSE PositionStats(<< 0 >>)
          [] key = "depth_stats" ->
                 IF lists.depth_differences # << >> THEN DiffStats(lists.depth_differences)
                 ELSE DiffStats(<< 0 >>)
          [] key = "altitude_stats" ->
                 IF lists.altitude_differences # << >>
                 THEN DiffStats(lists.altitude_differences)
                 ELSE DiffStats(<< 0 >>)
          [] key = "heading_stats" ->
                 IF lists.heading_differences # << >>
                 THEN HeadingStats(lists.heading_differences)
                 ELSE HeadingStats(<< 0 >>)]

\* Lines 260-297: the dict returned, with a key for each list that is not
\* empty.
PathStatsDict(lists) ==
    LET keys == (IF lists.distances # << >> THEN {"position_stats"} ELSE {})
                \cup (IF lists.depth_differences # << >> THEN {"depth_stats"} ELSE {})
                \cup (IF lists.altitude_differences # << >> THEN {"altitude_stats"} ELSE {})
                \cup (IF lists.heading_differences # << >> THEN {"heading_stats"} ELSE {})
    IN  [key \in keys |->
            CASE key = "position_stats" -> PositionStats(lists.distances)
              [] key = "depth_stats" -> DiffStats(lists.depth_differences)
              [] key = "altitude_stats" -> DiffStats(lists.altitude_differences)
              [] key = "heading_stats" -> HeadingStats(lists.heading_differences)]

\* Lines 225-235: an empty argument returns {} at once; otherwise both paths
\* are resampled at 0.5 m and the four lists start empty.
PathStatsEnter ==
    /\ pc = "stats_call"
    /\ IF path1 = << >> \/ path2 = << >>
       THEN /\ stats' = EmptyResult
            /\ pc' = "stats_return"
            /\ UNCHANGED << resampled_path1, resampled_path2, idx1, distances,
                            depth_differences, altitude_differences, heading_differences >>
       ELSE /\ resampled_path1' = resample_path_by_distance(path1, HalfMetre)
            /\ resampled_path2' = resample_path_by_distance(path2, HalfMetre)
            /\ distances' = << >>
            /\ depth_differences' = << >>
            /\ altitude_differences' = << >>
            /\ heading_differences' = << >>
            /\ idx1' = 1
            /\ pc' = "stats_loop"
            /\ UNCHANGED stats
    /\ UNCHANGED << path1, path2, closest_point2, distance, resampleVars, matchVars, accuracyVars, callerVars >>

\* Lines 238-258: one iteration of the loop over resampled_path1.
PathStatsIter ==
    /\ pc = "stats_loop"
    /\ idx1 <= Len(resampled_path1)
    /\ LET point1 == path1[resampled_path1[idx1]]
           candidates == Deref(path2, resampled_path2)
           found == find_closest_point(point1, candidates)
           lists == [distances |-> distances,
                     depth_differences |-> depth_differences,
                     altitude_differences |-> altitude_differences,
                     heading_differences |-> heading_differences]
           recorded == RecordSamples(lists, point1, found, candidates)
       IN  IF HasPosition(point1)
           THEN /\ closest_point2' = found.closest_point
                /\ distance' = found.min_distance
                /\ distances' = recorded.distances
                /\ depth_differences' = recorded.depth_differences
                /\ altitude_differences' = recorded.altitude_differences
                /\ heading_differences' = recorded.heading_differences
           ELSE UNCHANGED << closest_point2, distance, distances, depth_differences,
                             altitude_differences, heading_differences >>
    /\ idx1' = idx1 + 1
    /\ UNCHANGED << pc, path1, path2, resampled_path1, resampled_path2, stats,
                    resampleVars, matchVars, accuracyVars, callerVars >>

\* PathStatsReturn that returns a result kept by the caller, when there is
\* one, in place of the result for the two paths.
PathStatsReturnKept ==
    /\ pc = "stats_loop"
    /\ idx1 > Len(resampled_path1)
    /\ stats' = IF DOMAIN precision_results # {}
                THEN precision_results[CHOOSE key \in DOMAIN precision_results : TRUE]
                ELSE PathStatsDict([distances |-> distances,
                                    depth_differences |-> depth_differences,
                                    altitude_differences |-> altitude_differences,
                                    heading_differences |-> heading_differences])
    /\ pc' = "stats_return"
    /\ UNCHANGED << path1, path2, resampled_path1, resampled_path2, idx1, closest_point2,
                    distance, distances, depth_differences, altitude_differences,
                    heading_differences, resampleVars, matchVars, accuracyVars, callerVars >>

\* Lines 260-297: the loop is over, the dict is built and returned.
PathStatsReturn ==
    /\ pc = "stats_loop"
    /\ idx1 > Len(resampled_path1)
    /\ stats' = PathStatsDict([distances |-> distances,
                               depth_differences |-> depth_differences,
                               altitude_differences |-> altitude_differences,
                               heading_differences |-> heading_differences])
    /\ pc' = "stats_return"
    /\ UNCHANGED << path1, path2, resampled_path1, resampled_path2, idx1, closest_point2,
                    distance, distances, depth_differences, altitude_differences,
                    heading_differences, resampleVars, matchVars, accuracyVars, callerVars >>

InitPathStats ==
    /\ pc = "stats_call"
    /\ path1 \in SeqUpTo(PositionPoints \cup InvalidPoints, MaxPath)
    /\ path2 \in SeqUpTo(PositionPoints \cup InvalidPoints, MaxPath)
    /\ StatsLocalsUnset
    /\ ResampleIdle
    /\ MatchIdle
    /\ AccuracyIdle
    /\ CallerIdle

NextPathStats == PathStatsEnter \/ PathStatsIter \/ PathStatsReturn

SpecPathStats == InitPathStats /\ [][NextPathStats]_vars

\* The longest argument list of a comparison of points that carry depth,
\* altitude and heading.
MaxFields == 1

\* The compass headings of the telemetry, in degrees.
Headings == {0, 10, 90, 180, 350, 360}

\* Points with a position and every choice of present and absent depth,
\* altitude and heading (lines 84-111: each stays None unless its line is in
\* the block); the values differ with the position.
ProfilePoints ==
    UNION { { Point(Some(lat), Some(0), d, a, h) :
                  d \in {None, Some(1 + lat)},
                  a \in {None, Some(5 - lat)},
                  h \in {None, Some(350 - 170 * lat)} } : lat \in {0, 2} }

\* Points with a position and a heading only.
HeadingPoints == { Point(Some(1), Some(0), None, None, Some(h)) : h \in Headings }

InitPathFields ==
    /\ pc = "stats_call"
    /\ path1 \in SeqUpTo(ProfilePoints \cup HeadingPoints, MaxFields)
    /\ path2 \in SeqUpTo(ProfilePoints \cup HeadingPoints, MaxFields)
    /\ StatsLocalsUnset
    /\ ResampleIdle
    /\ MatchIdle
    /\ AccuracyIdle
    /\ CallerIdle

SpecPathFields == InitPathFields /\ [][NextPathStats]_vars

\* Calls of find_closest_point, direct and from calculate_path_statistics.
InitNoCandidate == InitMatch \/ InitPathStats

NextNoCandidate == NextMatch \/ NextPathStats

SpecNoCandidate == InitNoCandidate /\ [][NextNoCandidate]_vars

---------------------------------------------------------------------------
(* calculate_accuracy_to_planned *)

\* A planned waypoint as load_mission_json builds it (lines 149-155): the
\* coordinates are copied from the mission file, where a null gives None;
\* the depth is a number, 0 when the file gives none.
Waypoint(lat, lon, d) == [latitude |-> lat, longitude |-> lon, depth |-> Some(d)]

\* Waypoints along one meridian, the middle one deeper than the other two,
\* and one without a latitude.
PlannedWaypoints ==
    { Waypoint(Some(lat), Some(0), 3 * (lat % 2)) : lat \in Lats }
        \cup { Waypoint(None, Some(0), 0) }

\* Telemetry points along the same meridian with and without a depth, and one
\* without a latitude.
DepthPoints ==
    { Point(Some(lat), Some(0), d, None, None) : lat \in Lats, d \in {None, Some(1)} }
        \cup { Point(None, Some(0), Some(1), None, None) }

\* RecordErrors with a depth error against every waypoint, not the closest
\* only.
RecordErrorsPerWaypoint(lists, telem_point, found, waypoints) ==
    IF found.closest_waypoint # 0
    THEN [distances_to_planned |-> Append(lists.distances_to_planned, found.min_distance),
          depth_errors |->
              IF telem_point.depth # None
              THEN lists.depth_errors \o
                       [k \in 1..Len(waypoints) |->
                           Abs(Val(telem_point.depth) - Val(waypoints[k].depth))]
              ELSE lists.depth_errors]
    ELSE lists

\* Lines 325-331: what one telemetry point adds to the two lists; found is
\* the state of the waypoint search when it has ended without raising.
RecordErrors(lists, telem_point, found, waypoints) ==
    IF found.closest_waypoint # 0
    THEN LET closest == waypoints[found.closest_waypoint]
         IN  [distances_to_planned |-> Append(lists.distances_to_planned, found.min_distance),
              depth_errors |->
                  IF telem_point.depth # None
                  THEN Append(lists.depth_errors,
                              Abs(Val(telem_point.depth) - Val(closest.depth)))
                  ELSE lists.depth_errors]
    ELSE lists

\* Lines 336-343: the entries of position_accuracy.
PositionAccuracy(seq) ==
    [mean_error_m |-> Mean(seq),
     median_error_m |-> Median(seq),
     std_error_m |-> StdevOrZero(seq),
     max_error_m |-> 10 * SeqMax(seq),
     rms_error_m |-> Rms(seq),
     percentile_95_m |-> Percentile95(seq)]

\* Lines 346-351: the entries of depth_accuracy.
DepthAccuracy(seq) ==
    [mean_error_m |-> Mean(seq),
     median_error_m |-> Median(seq),
     std_error_m |-> StdevOrZero(seq),
     max_error_m |-> 10 * SeqMax(seq)]

\* AccuracyDict with a heading group next to the depth group.
AccuracyDictWithHeading(lists) ==
    LET keys == (IF lists.distances_to_planned # << >> THEN {"position_accuracy"} ELSE {})
                \cup (IF lists.depth_errors # << >>
                      THEN {"depth_accuracy", "heading_accuracy"} ELSE {})
    IN  [key \in keys |->
            CASE key = "position_accuracy" -> PositionAccuracy(lists.distances_to_planned)
              [] key = "depth_accuracy" -> DepthAccuracy(lists.depth_errors)
              [] key = "heading_accuracy" -> DepthAccuracy(lists.depth_errors)]

\* Lines 333-353: the dict returned, with a key for each list that is not
\* empty.
AccuracyDict(lists) ==
    LET keys == (IF lists.distances_to_planned # << >> THEN {"position_accuracy"} ELSE {})
                \cup (IF lists.depth_errors # << >> THEN {"depth_accuracy"} ELSE {})
    IN  [key \in keys |->
            CASE key = "position_accuracy" -> PositionAccuracy(lists.distances_to_planned)
              [] key = "depth_accuracy" -> DepthAccuracy(lists.depth_errors)]

\* Lines 301-308: an empty argument returns {} at once; otherwise the
\* telemetry is resampled at 0.5 m and the two lists start empty.
AccuracyEnter ==
    /\ pc = "accuracy_call"
    /\ IF telemetry_data = << >> \/ planned_waypoints = << >>
       THEN /\ accuracy_stats' = EmptyResult
            /\ pc' = "accuracy_return"
            /\ UNCHANGED << resampled_telemetry, idx_telem, distances_to_planned,
                            depth_errors >>
       ELSE /\ resampled_telemetry' = resample_path_by_distance(telemetry_data, HalfMetre)
            /\ distances_to_planned' = << >>
            /\ depth_errors' = << >>
            /\ idx_telem' = 1
            /\ pc' = "accuracy_loop"
            /\ UNCHANGED accuracy_stats
    /\ UNCHANGED << planned_waypoints, resampleVars, matchVars, statsVars, callerVars >>

\* Lines 310-331: one iteration of the loop over resampled_telemetry.  A
\* TypeError raised by the waypoint search ends the call.
AccuracyIter ==
    /\ pc = "accuracy_loop"
    /\ idx_telem <= Len(resampled_telemetry)
    /\ LET telem_point == telemetry_data[resampled_telemetry[idx_telem]]
           found == nearest_waypoint(telem_point, planned_waypoints)
           lists == [distances_to_planned |-> distances_to_planned,
                     depth_errors |-> depth_errors]
           recorded == RecordErrors(lists, telem_point, found, planned_waypoints)
       IN  IF HasPosition(telem_point)
           THEN /\ closest_waypoint' = found.closest_waypoint
                /\ waypoint_distance' = found.min_distance
                /\ waypoint_raised' = found.raised
                /\ IF found.raised
                   THEN /\ pc' = "accuracy_raised"
                        /\ UNCHANGED << idx_telem, distances_to_planned, depth_errors >>
                   ELSE /\ distances_to_planned' = recorded.distances_to_planned
                        /\ depth_errors' = recorded.depth_errors
                        /\ idx_telem' = idx_telem + 1
                        /\ UNCHANGED pc
           ELSE /\ idx_telem' = idx_telem + 1
                /\ UNCHANGED << pc, closest_waypoint, waypoint_distance, waypoint_raised,
                                distances_to_planned, depth_errors >>
    /\ UNCHANGED << planned_waypoints, resampled_telemetry, accuracy_stats,
                    target_point, path_points, closest_point, min_distance,
                    resampleVars, statsVars, callerVars >>

\* Lines 333-353: the loop is over, the dict is built and returned.
AccuracyReturn ==
    /\ pc = "accuracy_loop"
    /\ idx_telem > Len(resampled_telemetry)
    /\ accuracy_stats' = AccuracyDict([distances_to_planned |-> distances_to_planned,
                                       depth_errors |-> depth_errors])
    /\ pc' = "accuracy_return"
    /\ UNCHANGED << planned_waypoints, resampled_telemetry, idx_telem, distances_to_planned,
                    depth_errors, resampleVars, matchVars, statsVars, callerVars >>

InitAccuracy ==
    /\ pc = "accuracy_call"
    /\ telemetry_data \in SeqUpTo(DepthPoints, MaxPath)
    /\ planned_waypoints \in SeqUpTo(PlannedWaypoints, MaxPath)
    /\ interval_m = 0
    /\ i = 0
    /\ resampled = << >>
    /\ current_distance = 0
    /\ AccuracyLocalsUnset
    /\ MatchIdle
    /\ StatsIdle
    /\ CallerIdle

NextAccuracy == AccuracyEnter \/ AccuracyIter \/ AccuracyReturn

SpecAccuracy == InitAccuracy /\ [][NextAccuracy]_vars

\* Both comparators on paths of points that carry a position.
InitResampling == InitPathStats \/ InitAccuracy

NextResampling == NextPathStats \/ NextAccuracy

SpecResampling == InitResampling /\ [][NextResampling]_vars

\* Both comparators on paths of points that carry depth, altitude and heading.
InitSummaries == InitPathFields \/ InitAccuracy

NextSummaries == NextPathStats \/ NextAccuracy

SpecSummaries == InitSummaries /\ [][NextSummaries]_vars

---------------------------------------------------------------------------
(* The summaries of lines 260-297 and 333-353 as functions of a list *)

\* The longest list of deviations summarised.
MaxSamples == 22

\* Lists of deviations of every length up to MaxSamples: constant lists,
\* ascending lists (1, 2, 3, ...) and lists in no order.
SampleLists ==
    { [k \in 1..count |-> (step * k + first) % 23] :
          count \in 0..MaxSamples, step \in {0, 1, 4}, first \in {0, 5} }

\* Lines 260-297 when each of the four lists holds the values of samples.
SummarizePathStats ==
    /\ pc = "summary_call"
    /\ summaries' = PathStatsDict([distances |-> samples,
                                   depth_differences |-> samples,
                                   altitude_differences |-> samples,
                                   heading_differences |-> samples])
    /\ pc' = "path_summary"
    /\ UNCHANGED << samples, resampleVars, matchVars, statsVars, accuracyVars,
                    distanceVars, sessionVars >>

\* Lines 333-353 when each of the two lists holds the values of samples.
SummarizeAccuracy ==
    /\ pc = "summary_call"
    /\ summaries' = AccuracyDict([distances_to_planned |-> samples,
                                  depth_errors |-> samples])
    /\ pc' = "accuracy_summary"
    /\ UNCHANGED << samples, resampleVars, matchVars, statsVars, accuracyVars,
                    distanceVars, sessionVars >>

InitSummarize ==
    /\ pc = "summary_call"
    /\ samples \in SampleLists
    /\ summaries = << >>
    /\ ResampleIdle
    /\ MatchIdle
    /\ StatsIdle
    /\ AccuracyIdle
    /\ DistanceIdle
    /\ SessionsIdle

NextSummarize == SummarizePathStats \/ SummarizeAccuracy

SpecSummarize == InitSummarize /\ [][NextSummarize]_vars

---------------------------------------------------------------------------
(* The comparators as functions of their two arguments *)

RECURSIVE PathStatsLoop(_, _, _, _, _)
\* Lines 232-258: the four lists after the first k points of refs1.
PathStatsLoop(points1, points2, refs1, refs2, k) ==
    IF k = 0
    THEN [distances |-> << >>, depth_differences |-> << >>,
          altitude_differences |-> << >>, heading_differences |-> << >>]
    ELSE LET lists == PathStatsLoop(points1, points2, refs1, refs2, k - 1)
             point1 == points1[refs1[k]]
             candidates == Deref(points2, refs2)
             found == find_closest_point(point1, candidates)
         IN  IF HasPosition(point1)
             THEN RecordSamples(lists, point1, found, candidates)
             ELSE lists

\* Lines 223-297: the dict returned for two paths.
calculate_path_statistics(points1, points2) ==
    IF points1 = << >> \/ points2 = << >>
    THEN EmptyResult
    ELSE LET refs1 == resample_path_by_distance(points1, HalfMetre)
             refs2 == resample_path_by_distance(points2, HalfMetre)
             lists == PathStatsLoop(points1, points2, refs1, refs2, Len(refs1))
         IN  PathStatsDict(lists)

RECURSIVE AccuracyLoop(_, _, _, _)
\* Lines 307-331: the two lists after the first k points of refs, and whether
\* the waypoint search has raised.
AccuracyLoop(points, waypoints, refs, k) ==
    IF k = 0
    THEN [distances_to_planned |-> << >>, depth_errors |-> << >>, raised |-> FALSE]
    ELSE LET st == AccuracyLoop(points, waypoints, refs, k - 1)
             telem_point == points[refs[k]]
             found == nearest_waypoint(telem_point, waypoints)
             lists == [distances_to_planned |-> st.distances_to_planned,
                       depth_errors |-> st.depth_errors]
             recorded == RecordErrors(lists, telem_point, found, waypoints)
         IN  IF st.raised \/ ~HasPosition(telem_point) THEN st
             ELSE IF found.raised THEN [st EXCEPT !.raised = TRUE]
             ELSE [distances_to_planned |-> recorded.distances_to_planned,
                   depth_errors |-> recorded.depth_errors,
                   raised |-> FALSE]

\* Lines 299-353: the dict returned for a trajectory and the planned
\* waypoints, or the TypeError of the waypoint search.
calculate_accuracy_to_planned(points, waypoints) ==
    IF points = << >> \/ waypoints = << >>
    THEN [raised |-> FALSE, result |-> EmptyResult]
    ELSE LET refs == resample_path_by_distance(points, HalfMetre)
             st == AccuracyLoop(points, waypoints, refs, Len(refs))
         IN  IF st.raised
             THEN [raised |-> TRUE, result |-> EmptyResult]
             ELSE [raised |-> FALSE,
                   result |-> AccuracyDict([distances_to_planned |-> st.distances_to_planned,
                                            depth_errors |-> st.depth_errors])]

---------------------------------------------------------------------------
(* load_all_sessions, compare_all_sessions and export_comparison_data *)

\* The longest list of session names given to the constructor.
MaxSessions == 3

\* The names of the session folders.
SessionNames == {"s", "s_vs_t", "t_vs_s"}

\* The telemetry of a session: one point, or two points 0.60 m apart.
ShortTelemetry == << Point(Some(0), Some(0), Some(1), None, None) >>
LongTelemetry ==
    << Point(Some(0), Some(0), None, None, None), Point(Some(2), Some(0), Some(1), None, None) >>

\* Lines 37-131 and 133-160: what a session folder loads.  Without a VTT
\* file the telemetry is []; without a mission file mission_data is {}
\* (None here), and with one it is a dict that has planned_waypoints (Some of
\* the waypoints here).
SessionContent(telemetry, mission) == [telemetry_data |-> telemetry, mission_data |-> mission]

SessionContents ==
    { SessionContent(<< >>, None),
      SessionContent(ShortTelemetry, None),
      SessionContent(LongTelemetry, Some(<< Waypoint(Some(0), Some(0), 0) >>)),
      SessionContent(ShortTelemetry, Some(<< Waypoint(None, Some(0), 0) >>)) }

\* dict[key] = value.
DictPut(dict, key, value) ==
    [k \in DOMAIN dict \cup {key} |-> IF k = key THEN value ELSE dict[k]]

\* Line 368: self.sessions_data[session] = session_data; a dict keeps the
\* place of a key it has and puts a new key last.
StoreSession(data, session_data) ==
    IF \E k \in 1..Len(data) : data[k].session_name = session_data.session_name
    THEN [k \in 1..Len(data) |->
             IF data[k].session_name = session_data.session_name
             THEN session_data ELSE data[k]]
    ELSE Append(data, session_data)

RECURSIVE LoadLoop(_, _, _, _)
\* Lines 359-368: sessions_data after the first k names of folders.
LoadLoop(data, folders, disk, k) ==
    IF k = 0 THEN data
    ELSE LET before == LoadLoop(data, folders, disk, k - 1)
             session == folders[k]
         IN  StoreSession(before, [session_name |-> session,
                                   mission_data |-> disk[session].mission_data,
                                   telemetry_data |-> disk[session].telemetry_data])

\* Lines 376-377: the loaded sessions that have telemetry, in their order.
SessionsWithTelemetry(data) == SelectSeq(data, LAMBDA v : v.telemetry_data # << >>)

\* PrecisionKey with the names the other way round.
PrecisionKeyReversed(session1, session2) == session2 \o "_vs_" \o session1

\* Line 402: the key of a pair.
PrecisionKey(session1, session2) == session1 \o "_vs_" \o session2

RECURSIVE PrecisionLoop(_, _, _)
\* Lines 389-402: precision_results after the iterations up to the one of
\* the positions a < b of sessions.
PrecisionLoop(sessions, a, b) ==
    LET before == IF b > a + 1 THEN PrecisionLoop(sessions, a, b - 1)
                  ELSE IF a > 1 THEN PrecisionLoop(sessions, a - 1, Len(sessions))
                  ELSE << >>
        telemetry1 == sessions[a].telemetry_data
        telemetry2 == sessions[b].telemetry_data
        precision_stats == calculate_path_statistics(telemetry1, telemetry2)
    IN  DictPut(before, PrecisionKey(sessions[a].session_name, sessions[b].session_name),
                precision_stats)

RECURSIVE AccuracyResultsLoop(_, _)
\* Lines 430-438: accuracy_results after the first k sessions, and whether
\* calculate_accuracy_to_planned has raised.
AccuracyResultsLoop(sessions, k) ==
    IF k = 0 THEN [results |-> << >>, raised |-> FALSE]
    ELSE LET st == AccuracyResultsLoop(sessions, k - 1)
             session_data == sessions[k]
         IN  IF st.raised \/ session_data.mission_data = None THEN st
             ELSE LET call == calculate_accuracy_to_planned(session_data.telemetry_data,
                                                            Val(session_data.mission_data))
                  IN  IF call.raised THEN [st EXCEPT !.raised = TRUE]
                      ELSE [results |-> DictPut(st.results, session_data.session_name,
                                                call.result),
                            raised |-> FALSE]

\* StoredStats without the precision results.
StoredStatsAccuracyOnly(precision, accuracy, names) ==
    [accuracy_results |-> accuracy,
     sessions_analyzed |-> names,
     analysis_date |-> "now"]

\* Lines 455-460: the dict stored in comparison_stats.
StoredStats(precision, accuracy, names) ==
    [precision_results |-> precision,
     accuracy_results |-> accuracy,
     sessions_analyzed |-> names,
     analysis_date |-> "now"]

\* The positions of the session methods: before any call, and after each.
SessionPcs ==
    {"session_ready", "loaded", "compare_skipped", "compared", "compare_raised",
     "exported", "export_raised"}

\* Lines 355-368.
LoadAllSessions ==
    /\ pc \in SessionPcs
    /\ sessions_data' = LoadLoop(sessions_data, session_folders, files, Len(session_folders))
    /\ pc' = "loaded"
    /\ UNCHANGED << session_folders, files, comparison_stats, precision_results,
                    accuracy_results, timestamp, exported,
                    resampleVars, matchVars, statsVars, accuracyVars, summaryVars,
                    distanceVars >>

\* Lines 370-460.  With fewer than two sessions with telemetry the call
\* returns at line 381; a TypeError of calculate_accuracy_to_planned leaves
\* the call before line 455.
CompareAllSessions ==
    /\ pc \in SessionPcs
    /\ LET sessions_with_telemetry == SessionsWithTelemetry(sessions_data)
           count == Len(sessions_with_telemetry)
           session_names == [k \in 1..count |-> sessions_with_telemetry[k].session_name]
           precision == PrecisionLoop(sessions_with_telemetry, count - 1, count)
           accuracy == AccuracyResultsLoop(sessions_with_telemetry, count)
       IN  IF count < 2
           THEN /\ pc' = "compare_skipped"
                /\ precision_results' = << >>
                /\ accuracy_results' = << >>
                /\ UNCHANGED comparison_stats
           ELSE /\ precision_results' = precision
                /\ accuracy_results' = accuracy.results
                /\ IF accuracy.raised
                   THEN /\ pc' = "compare_raised"
                        /\ UNCHANGED comparison_stats
                   ELSE /\ pc' = "compared"
                        /\ comparison_stats' =
                               StoredStats(precision, accuracy.results, session_names)
    /\ UNCHANGED << session_folders, files, sessions_data, timestamp, exported,
                    resampleVars, matchVars, statsVars, accuracyVars, summaryVars,
                    distanceVars >>

\* Lines 782-828.  timestamp is bound at line 790 only; line 828 reads it.
ExportComparisonData ==
    /\ pc \in SessionPcs
    /\ LET has_precision == "precision_results" \in DOMAIN comparison_stats
           has_accuracy == "accuracy_results" \in DOMAIN comparison_stats
           bound == IF has_precision THEN Some("now") ELSE None
           precision_csv == IF has_precision THEN {"precision_statistics"} ELSE {}
       IN  /\ timestamp' = bound
           /\ IF has_accuracy /\ bound = None
              THEN /\ pc' = "export_raised"
                   /\ exported' = precision_csv
              ELSE /\ pc' = "exported"
                   /\ exported' = precision_csv \cup
                          (IF has_accuracy THEN {"accuracy_statistics"} ELSE {})
    /\ UNCHANGED << session_folders, files, sessions_data, comparison_stats,
                    precision_results, accuracy_results,
                    resampleVars, matchVars, statsVars, accuracyVars, summaryVars,
                    distanceVars >>

\* The VTT file of the first session is removed from the disk after the
\* sessions have been loaded.
TelemetryRemoved ==
    /\ pc \in SessionPcs \ {"session_ready"}
    /\ session_folders # << >>
    /\ LET session == session_folders[1]
       IN  /\ files[session].telemetry_data # << >>
           /\ files' = [files EXCEPT ![session].telemetry_data = << >>]
    /\ UNCHANGED << pc, session_folders, sessions_data, comparison_stats,
                    precision_results, accuracy_results, timestamp, exported,
                    resampleVars, matchVars, statsVars, accuracyVars, summaryVars,
                    distanceVars >>

\* Lines 28-35: the comparator after its construction; the folders that are
\* not named hold nothing.
InitSessions ==
    /\ pc = "session_ready"
    /\ session_folders \in SeqUpTo(SessionNames, MaxSessions)
    /\ files \in [SessionNames -> SessionContents]
    /\ \A session \in SessionNames \ Range(session_folders) :
           files[session] = SessionContent(<< >>, None)
    /\ sessions_data = << >>
    /\ comparison_stats = << >>
    /\ precision_results = << >>
    /\ accuracy_results = << >>
    /\ timestamp = None
    /\ exported = {}
    /\ ResampleIdle
    /\ MatchIdle
    /\ StatsIdle
    /\ AccuracyIdle
    /\ SummaryIdle
    /\ DistanceIdle

NextSessions ==
    LoadAllSessions \/ CompareAllSessions \/ ExportComparisonData \/ TelemetryRemoved

SpecSessions == InitSessions /\ [][NextSessions]_vars

\* A comparator call of compare_all_sessions in flight: the call of line 401
\* for a pair of the sessions with telemetry, with the results of the pairs
\* before it in precision_results, or the call of line 437 for a session with
\* a mission, with the results of the sessions before it in accuracy_results;
\* comparison_stats is {} or holds the results of an earlier comparison of
\* the same sessions.
InitPairs ==
    /\ session_folders \in SeqUpTo(SessionNames, MaxSessions)
    /\ files \in [SessionNames -> SessionContents]
    /\ \A session \in SessionNames \ Range(session_folders) :
           files[session] = SessionContent(<< >>, None)
    /\ sessions_data = LoadLoop(<< >>, session_folders, files, Len(session_folders))
    /\ LET sessions_with_telemetry == SessionsWithTelemetry(sessions_data)
           count == Len(sessions_with_telemetry)
           session_names == [k \in 1..count |-> sessions_with_telemetry[k].session_name]
           precision == PrecisionLoop(sessions_with_telemetry, count - 1, count)
           accuracy == AccuracyResultsLoop(sessions_with_telemetry, count)
       IN  /\ count >= 2
           /\ comparison_stats \in
                  {<< >>} \cup (IF accuracy.raised THEN {}
                                ELSE {StoredStats(precision, accuracy.results,
                                                  session_names)})
           /\ \/ \E a \in 1..count, b \in 1..count :
                    /\ a < b
                    /\ pc = "stats_call"
                    /\ path1 = sessions_with_telemetry[a].telemetry_data
                    /\ path2 = sessions_with_telemetry[b].telemetry_data
                    /\ precision_results =
                           IF b > a + 1
                           THEN PrecisionLoop(sessions_with_telemetry, a, b - 1)
                           ELSE IF a > 1
                           THEN PrecisionLoop(sessions_with_telemetry, a - 1, count)
                           ELSE << >>
                    /\ accuracy_results = << >>
                    /\ telemetry_data = << >>
                    /\ planned_waypoints = << >>
              \/ \E k \in 1..count :
                    /\ sessions_with_telemetry[k].mission_data # None
                    /\ ~AccuracyResultsLoop(sessions_with_telemetry, k - 1).raised
                    /\ pc = "accuracy_call"
                    /\ telemetry_data = sessions_with_telemetry[k].telemetry_data
                    /\ planned_waypoints = Val(sessions_with_telemetry[k].mission_data)
                    /\ precision_results = precision
                    /\ accuracy_results =
                           AccuracyResultsLoop(sessions_with_telemetry, k - 1).results
                    /\ path1 = << >>
                    /\ path2 = << >>
    /\ timestamp = None
    /\ exported = {}
    /\ interval_m = 0
    /\ i = 0
    /\ resampled = << >>
    /\ current_distance = 0
    /\ MatchIdle
    /\ StatsLocalsUnset
    /\ AccuracyLocalsUnset
    /\ SummaryIdle
    /\ DistanceIdle

NextPairs == NextPathStats \/ NextAccuracy

SpecPairs == InitPairs /\ [][NextPairs]_vars

\* Calls of the four path functions: resample_path_by_distance and
\* find_closest_point on short paths of points with and without a position or
\* a depth, and the two comparators as compare_all_sessions calls them.
InitInputs ==
    \/ /\ pc = "resample_call"
       /\ telemetry_data \in SeqUpTo(DepthPoints, MaxPath)
       /\ interval_m \in {HalfMetre, OneMetre}
       /\ i = 0
       /\ resampled = << >>
       /\ current_distance = 0
       /\ MatchIdle
       /\ StatsIdle
       /\ AccuracyIdle
       /\ CallerIdle
    \/ /\ pc = "match_call"
       /\ target_point \in { point \in DepthPoints : HasPosition(point) }
       /\ path_points \in SeqUpTo(DepthPoints, MaxPath)
       /\ closest_point = 0
       /\ min_distance = Inf
       /\ closest_waypoint = 0
       /\ waypoint_distance = Inf
       /\ waypoint_raised = FALSE
       /\ ResampleIdle
       /\ StatsIdle
       /\ AccuracyIdle
       /\ CallerIdle
    \/ InitPairs

NextInputs == NextResample \/ FindClosestPoint \/ NextPairs

SpecInputs == InitInputs /\ [][NextInputs]_vars

---------------------------------------------------------------------------
(* calculate_distance over the sphere *)

\* Line 164: the radius of the Earth, in metres.
EarthRadius == 6371000

\* Latitudes and longitudes in whole degrees whose sines and cosines the
\* formula needs are rational or have a rational square.
DegreeLats == {-60, 0, 60}
DegreeLons == {0, 90, 180}

\* math.sin(x/2) * math.sin(x/2) for a difference of x degrees, in eighths.
SinHalfSquared ==
    [x \in {-180, -120, -90, -60, 0, 60, 90, 120, 180} |->
        CASE x \in {0} -> 0
          [] x \in {-60, 60} -> 2
          [] x \in {-90, 90} -> 4
          [] x \in {-120, 120} -> 6
          [] x \in {-180, 180} -> 8]

\* math.cos of a latitude in degrees, in halves.
CosLatitude == [x \in DegreeLats |-> IF x = 0 THEN 2 ELSE 1]

\* 2 * math.atan2(math.sqrt(a), math.sqrt(1 - a)) for a in thirty-seconds, in
\* milliradians rounded down.
CentralAngle ==
    [a \in {0, 4, 8, 12, 16, 20, 24, 28, 32} |->
        CASE a = 0 -> 0
          [] a = 4 -> 722
          [] a = 8 -> 1047
          [] a = 12 -> 1318
          [] a = 16 -> 1570
          [] a = 20 -> 1823
          [] a = 24 -> 2094
          [] a = 28 -> 2418
          [] a = 32 -> 3141]

\* HaversineDistance with the cosine of lat1 taken twice.
HaversineDistanceOneLatitude(lat1, lon1, lat2, lon2) ==
    LET a == 4 * SinHalfSquared[lat2 - lat1] +
                 CosLatitude[lat1] * CosLatitude[lat1] * SinHalfSquared[lon2 - lon1]
        c == CentralAngle[a]
    IN  (EarthRadius \div 1000) * c

\* Lines 162-176 (and the same code in analyze_mission_html.py, lines
\* 192-206): the haversine distance of two positions in whole degrees, in
\* metres; a counts thirty-seconds and c milliradians.
HaversineDistance(lat1, lon1, lat2, lon2) ==
    LET a == 4 * SinHalfSquared[lat2 - lat1] +
                 CosLatitude[lat1] * CosLatitude[lat2] * SinHalfSquared[lon2 - lon1]
        c == CentralAngle[a]
    IN  (EarthRadius \div 1000) * c

\* MissionComparator.calculate_distance is called and returns.
CalculateDistance ==
    /\ pc = "distance_call"
    /\ distance_m' = HaversineDistance(endpoints[1], endpoints[2], endpoints[3], endpoints[4])
    /\ pc' = "distance_return"
    /\ UNCHANGED << endpoints, resampleVars, matchVars, statsVars, accuracyVars,
                    summaryVars, sessionVars >>

\* HTMLMissionAnalyzer.calculate_distance is called and returns.
AnalyzerCalculateDistance ==
    /\ pc = "distance_call"
    /\ distance_m' = HaversineDistance(endpoints[1], endpoints[2], endpoints[3], endpoints[4])
    /\ pc' = "analyzer_distance_return"
    /\ UNCHANGED << endpoints, resampleVars, matchVars, statsVars, accuracyVars,
                    summaryVars, sessionVars >>

InitDistance ==
    /\ pc = "distance_call"
    /\ endpoints \in DegreeLats \X DegreeLons \X DegreeLats \X DegreeLons
    /\ distance_m = -1
    /\ ResampleIdle
    /\ MatchIdle
    /\ StatsIdle
    /\ AccuracyIdle
    /\ SummaryIdle
    /\ SessionsIdle

NextDistance == CalculateDistance \/ AnalyzerCalculateDistance

SpecDistance == InitDistance /\ [][NextDistance]_vars

---------------------------------------------------------------------------
(* Properties of find_closest_point without a candidate, under SpecNoCandidate *)

\* The next step is a direct call of find_closest_point with a candidate list
\* that is empty or holds no candidate with a position.
CallWithoutCandidate == pc = "match_call" /\ ValidCandidates = {}

\* The next step of the loop calls find_closest_point for a query with a
\* position and no candidate of resampled_path2 has a position.
QueryWithoutCandidate ==
    /\ pc = "stats_loop"
    /\ idx1 <= Len(resampled_path1)
    /\ HasPosition(path1[resampled_path1[idx1]])
    /\ \A k \in 1..Len(resampled_path2) : ~HasPosition(path2[resampled_path2[k]])

SamplesUnchanged ==
    /\ distances' = distances
    /\ depth_differences' = depth_differences
    /\ altitude_differences' = altitude_differences
    /\ heading_differences' = heading_differences

\* C10 as stated: when the candidate list is empty or holds no candidate with
\* a valid latitude/longitude, find_closest_point signals NoCandidate and
\* returns no sentinel distance, and the caller records no deviation sample
\* for that query point.
C10_Original ==
    [][/\ CallWithoutCandidate => (closest_point' = 0 /\ min_distance' # Inf)
       /\ QueryWithoutCandidate =>
              (closest_point2' = 0 /\ distance' # Inf /\ SamplesUnchanged)]_vars

\* C10, amended: when the candidate list is empty or holds no candidate with
\* a valid latitude/longitude, find_closest_point returns None as the point
\* together with the sentinel distance float('inf'); its caller tests the
\* point against None and records no deviation sample (neither 0 nor the
\* sentinel) for that query point.
C10_NoCandidateNoSample ==
    [][/\ CallWithoutCandidate => (closest_point' = 0 /\ min_distance' = Inf)
       /\ QueryWithoutCandidate =>
              (closest_point2' = 0 /\ distance' = Inf /\ SamplesUnchanged)]_vars

\* A query with a position has been matched against candidates none of which
\* has a position: the point returned is None and nothing has been recorded.
C10_Witness ==
    /\ pc = "stats_loop"
    /\ idx1 >= 2
    /\ HasPosition(path1[resampled_path1[idx1 - 1]])
    /\ \A k \in 1..Len(resampled_path2) : ~HasPosition(path2[resampled_path2[k]])
    /\ \E k \in 1..Len(path2) : HasPosition(path2[k])
    /\ closest_point2 = 0
    /\ distance = Inf
    /\ distances = << >>

---------------------------------------------------------------------------
(* Properties of calculate_path_statistics, under SpecPathStats *)

\* The references of refs whose point of path has a position, in order.
WithPosition(path, refs) == SelectSeq(refs, LAMBDA r : HasPosition(path[r]))

\* The least distance from point to the points of path referenced by refs
\* that have a position, of which there is at least one.
NearestDistance(point, path, refs) ==
    LET candidates == WithPosition(path, refs)
        ds == { DistanceTo(point, path[candidates[k]]) : k \in 1..Len(candidates) }
    IN  CHOOSE d \in ds : \A e \in ds : d <= e

\* The position deviations of a comparison that takes the points of queries
\* (references into pathA) with a position as its queries and those of
\* candidates (references into pathB) with a position as its candidates, one
\* deviation per query.
DeviationsOf(pathA, queries, pathB, candidates) ==
    LET asking == WithPosition(pathA, queries)
    IN  [k \in 1..Len(asking) |-> NearestDistance(pathA[asking[k]], pathB, candidates)]

\* The comparison has resampled both paths; its loop has handled the points
\* of resampled_path1 before idx1.
InComparison == pc \in {"stats_loop", "stats_return"} /\ idx1 >= 1

HandledQueries == SubSeq(resampled_path1, 1, idx1 - 1)

\* C12 as stated: the comparison matches from path1 to path2 only: every
\* resampled point of path1 with a valid position contributes exactly one
\* position deviation equal to its distance to the nearest point of the
\* resampled path2, and no point of path2 is a query.
C12_Original ==
    InComparison =>
        /\ Len(distances) = Len(WithPosition(path1, HandledQueries))
        /\ WithPosition(path2, resampled_path2) # << >>
               => distances = DeviationsOf(path1, HandledQueries, path2, resampled_path2)

\* C12, amended: the comparison matches from path1 to path2 only: when the
\* resampled path2 holds a point with a valid position, every resampled point
\* of path1 with a valid position contributes exactly one position deviation
\* equal to its distance to the nearest such point of the resampled path2;
\* when it holds none, no deviation is recorded.  No point of path2 is a query.
C12_OneDirectional ==
    InComparison =>
        IF WithPosition(path2, resampled_path2) # << >>
        THEN distances = DeviationsOf(path1, HandledQueries, path2, resampled_path2)
        ELSE distances = << >>

\* A finished comparison whose deviations differ from those of the comparison
\* with the two paths exchanged, both having recorded some.
C12_Witness ==
    /\ pc = "stats_return"
    /\ distances # << >>
    /\ WithPosition(path1, resampled_path1) # << >>
    /\ Len(resampled_path2) = 2
    /\ distances # DeviationsOf(path2, resampled_path2, path1, resampled_path1)
    /\ \E k \in 1..Len(distances) : distances[k] > 0

---------------------------------------------------------------------------
(* Properties of the attribute deviations, under SpecPathFields *)

\* The next step of the loop matches a query that has a position.
QueryStep ==
    /\ pc = "stats_loop"
    /\ idx1 <= Len(resampled_path1)
    /\ HasPosition(path1[resampled_path1[idx1]])

\* The query of the next step of the loop.
Query == path1[resampled_path1[idx1]]

\* The point of path2 that position m of resampled_path2 refers to.
MatchAt(m) == path2[resampled_path2[m]]

\* The list after is the list before with the sample appended when recorded
\* holds, and the list before otherwise.
AppendedIff(recorded, before, after, sample) ==
    IF recorded THEN after = Append(before, sample) ELSE after = before

\* C13: for a matched pair the depth deviation |depthA - depthB| is recorded
\* if and only if both the query and its match have a depth; the same holds,
\* each on its own, for altitude (both altitudes present) and for heading
\* (both headings present, one more heading deviation), so a field missing
\* in one group never suppresses a sample in another.
C13_FieldsIndependent ==
    [][(QueryStep /\ closest_point2' # 0) =>
          LET q == Query
              c == MatchAt(closest_point2')
          IN  /\ AppendedIff(q.depth # None /\ c.depth # None,
                              depth_differences, depth_differences',
                              Abs(q.depth[1] - c.depth[1]))
              /\ AppendedIff(q.altitude # None /\ c.altitude # None,
                              altitude_differences, altitude_differences',
                              Abs(q.altitude[1] - c.altitude[1]))
              /\ Len(heading_differences') = Len(heading_differences)
                      + (IF q.heading # None /\ c.heading # None THEN 1 ELSE 0)
              /\ Len(distances') = Len(distances) + 1]_vars

\* A pair whose query has a depth and whose match has none has recorded an
\* altitude deviation and a heading deviation and no depth deviation.
C13_Witness ==
    /\ pc = "stats_return"
    /\ Len(path1) = 1 /\ Len(path2) = 1
    /\ path1[1].depth # None
    /\ path2[1].depth = None
    /\ depth_differences = << >>
    /\ altitude_differences = << 2 >>
    /\ Len(heading_differences) = 1
    /\ DOMAIN stats = {"position_stats", "altitude_stats", "heading_stats"}

\* C14: the heading deviation recorded for the headings a and b is
\* min(|a - b|, 360 - |a - b|); it is the same for b and a, and lies in
\* 0..180 (350 against 10 gives 20, 0 against 180 gives 180).
C14_HeadingWraps ==
    [][(QueryStep /\ closest_point2' # 0
            /\ Query.heading # None /\ MatchAt(closest_point2').heading # None) =>
          LET a == Query.heading[1]
              b == MatchAt(closest_point2').heading[1]
              direct == Abs(a - b)
              around == 360 - Abs(a - b)
              recorded == heading_differences'[Len(heading_differences')]
          IN  /\ recorded = IF direct <= around THEN direct ELSE around
              /\ recorded = HeadingDiff(b, a)
              /\ recorded \in 0..180
              /\ (a = 350 /\ b = 10) => recorded = 20
              /\ (a = 0 /\ b = 180) => recorded = 180]_vars

\* The headings 350 and 10 have been compared across the wraparound.
C14_Witness ==
    /\ pc = "stats_return"
    /\ Len(path1) = 1 /\ Len(path2) = 1
    /\ path1[1].heading = Some(350)
    /\ path2[1].heading = Some(10)
    /\ heading_differences = << 20 >>

---------------------------------------------------------------------------
(* Empty arguments of calculate_path_statistics, under SpecPathStats *)

\* The call in flight has an empty argument.
EmptyPathArgument == path1 = << >> \/ path2 = << >>

\* C15: when either argument of calculate_path_statistics is empty the call
\* returns at once, without raising, a result with none of the four groups
\* (position, depth, altitude, heading), and has recorded no deviation.
C15_EmptyPathNoGroups ==
    [][(pc = "stats_call" /\ EmptyPathArgument) =>
          /\ pc' = "stats_return"
          /\ DOMAIN stats' = {}
          /\ SamplesUnchanged
          /\ distances = << >>]_vars

\* A comparison of a path of two points with an empty path has returned the
\* empty result.
C15_Witness ==
    /\ pc = "stats_return"
    /\ Len(path1) = 2
    /\ HasPosition(path1[1])
    /\ path2 = << >>
    /\ DOMAIN stats = {}
    /\ idx1 = 0

---------------------------------------------------------------------------
(* The resampling interval of the comparators, under SpecResampling *)

\* A comparator has resampled its arguments.
PathsResampled == pc = "stats_loop"
TelemetryResampled == pc \in {"accuracy_loop", "accuracy_raised"}

\* C16 as stated: the pairwise and the accuracy comparator resample with the
\* interval their caller gives (0.5 m unless told otherwise): whichever
\* interval of Intervals the caller asks for, the resampled paths are those
\* of resample_path_by_distance at that interval.
C16_Original ==
    \A asked \in Intervals :
        /\ PathsResampled =>
              /\ resampled_path1 = resample_path_by_distance(path1, asked)
              /\ resampled_path2 = resample_path_by_distance(path2, asked)
        /\ TelemetryResampled =>
              resampled_telemetry = resample_path_by_distance(telemetry_data, asked)

\* C16, amended: the pairwise and the accuracy comparator always resample at
\* 0.5 m (50 cm): the interval is a literal of the two functions, which take
\* no interval argument, and it is not the 1.0 m default of
\* resample_path_by_distance.
C16_HalfMetreFixed ==
    /\ PathsResampled =>
          /\ resampled_path1 = resample_path_by_distance(path1, 50)
          /\ resampled_path2 = resample_path_by_distance(path2, 50)
    /\ TelemetryResampled =>
          resampled_telemetry = resample_path_by_distance(telemetry_data, 50)

\* The comparison has resampled a path of two points 0.6 m apart: both are
\* kept, where an interval of 1 m keeps the first only; its other path has
\* two points 0.3 m apart, of which an interval of 0.3 m keeps both and the
\* comparison only the first.
C16_Witness ==
    /\ PathsResampled
    /\ resampled_path1 = << 1, 2 >>
    /\ resample_path_by_distance(path1, 100) = << 1 >>
    /\ resampled_path2 = << 1 >>
    /\ resample_path_by_distance(path2, 30) = << 1, 2 >>

---------------------------------------------------------------------------
(* Properties of calculate_accuracy_to_planned, under SpecAccuracy *)

\* The waypoints of the whole planned list that have a position.
ValidWaypoints == { j \in 1..Len(planned_waypoints) : HasPosition(planned_waypoints[j]) }

\* The waypoint nearest to point among those with a position, the first of
\* them in the list when several are as near.
NearestWaypointOf(point) ==
    CHOOSE j \in ValidWaypoints :
        \A k \in ValidWaypoints :
            \/ DistanceTo(point, planned_waypoints[j]) < DistanceTo(point, planned_waypoints[k])
            \/ /\ DistanceTo(point, planned_waypoints[j])
                     = DistanceTo(point, planned_waypoints[k])
               /\ j <= k

\* The resampled telemetry points with a position, and those of them with a
\* depth, as references into telemetry_data.
PositionedTelemetry == WithPosition(telemetry_data, resampled_telemetry)
DeepTelemetry == SelectSeq(PositionedTelemetry, LAMBDA r : telemetry_data[r].depth # None)

\* One distance per resampled telemetry point with a position: that to its
\* nearest waypoint; one depth error per such point with a depth: that
\* against the same waypoint.
ExpectedDistances ==
    [k \in 1..Len(PositionedTelemetry) |->
        LET point == telemetry_data[PositionedTelemetry[k]]
        IN  DistanceTo(point, planned_waypoints[NearestWaypointOf(point)])]
ExpectedDepthErrors ==
    [k \in 1..Len(DeepTelemetry) |->
        LET point == telemetry_data[DeepTelemetry[k]]
        IN  Abs(point.depth[1] - planned_waypoints[NearestWaypointOf(point)].depth[1])]

\* The call had two arguments that are not empty, and has ended.
AccuracyEnded ==
    /\ pc \in {"accuracy_return", "accuracy_raised"}
    /\ telemetry_data # << >>
    /\ planned_waypoints # << >>

\* C17: calculate_accuracy_to_planned records, for every resampled trajectory
\* point with a valid position, the distance to its nearest waypoint, searched
\* over the whole unresampled waypoint list by distance, and the depth error
\* |depth - waypoint.depth| against that same waypoint exactly when the
\* trajectory point has a depth.
C17_NearestWaypointErrors ==
    (AccuracyEnded /\ ValidWaypoints # {}) =>
        /\ pc = "accuracy_return"
        /\ distances_to_planned = ExpectedDistances
        /\ depth_errors = ExpectedDepthErrors

\* C17 for the calls that return: the two lists are as C17 says.
C17_WhereReturned ==
    (AccuracyEnded /\ pc = "accuracy_return") =>
        /\ distances_to_planned = ExpectedDistances
        /\ depth_errors = ExpectedDepthErrors

\* A call with a waypoint with a position before one without: the first
\* telemetry point has a position and a depth, the search raised and nothing
\* was recorded.
C17_Witness ==
    /\ pc = "accuracy_raised"
    /\ Len(planned_waypoints) = 2
    /\ HasPosition(planned_waypoints[1])
    /\ ~HasPosition(planned_waypoints[2])
    /\ telemetry_data[1].depth # None
    /\ distances_to_planned = << >>
    /\ depth_errors = << >>

\* C18: the result of calculate_accuracy_to_planned holds at most a position
\* group and a depth group, the position group when a distance was recorded
\* and the depth group when a depth error was; it never holds a heading or an
\* altitude group.
C18_PositionAndDepthOnly ==
    /\ DOMAIN accuracy_stats \subseteq {"position_accuracy", "depth_accuracy"}
    /\ pc = "accuracy_return" =>
          /\ "position_accuracy" \in DOMAIN accuracy_stats <=> distances_to_planned # << >>
          /\ "depth_accuracy" \in DOMAIN accuracy_stats <=> depth_errors # << >>

\* A call has returned both groups, for two points of which one has a depth.
C18_Witness ==
    /\ pc = "accuracy_return"
    /\ DOMAIN accuracy_stats = {"position_accuracy", "depth_accuracy"}
    /\ Len(distances_to_planned) = 2
    /\ Len(depth_errors) = 1

\* The call in flight has an empty argument.
EmptyAccuracyArgument == telemetry_data = << >> \/ planned_waypoints = << >>

\* C19: when the telemetry or the waypoint list is empty,
\* calculate_accuracy_to_planned returns at once a result without groups and
\* does not raise; no waypoint search is run and nothing is recorded.
C19_EmptyAccuracyNoGroups ==
    [][(pc = "accuracy_call" /\ EmptyAccuracyArgument) =>
          /\ pc' = "accuracy_return"
          /\ DOMAIN accuracy_stats' = {}
          /\ ~waypoint_raised'
          /\ distances_to_planned' = << >>
          /\ depth_errors' = << >>]_vars

\* A call with an empty telemetry and a waypoint list that holds a waypoint
\* without a position has returned the empty result.
C19_Witness ==
    /\ pc = "accuracy_return"
    /\ telemetry_data = << >>
    /\ \E j \in 1..Len(planned_waypoints) : ~HasPosition(planned_waypoints[j])
    /\ DOMAIN accuracy_stats = {}
    /\ ~waypoint_raised

---------------------------------------------------------------------------
(* The entries of the summaries, under SpecSummaries *)

\* The names under which a summary of the code holds each statistic.
CountEntries == {"count", "count_samples", "n_samples", "num_samples"}
MeanEntries == {"mean_distance_m", "mean_diff_m", "mean_diff_deg", "mean_error_m"}
MedianEntries == {"median_distance_m", "median_diff_m", "median_diff_deg", "median_error_m"}
StdEntries == {"std_distance_m", "std_diff_m", "std_diff_deg", "std_error_m"}
MinEntries == {"min_distance_m", "min_diff_m", "min_diff_deg", "min_error_m"}
MaxEntries == {"max_distance_m", "max_diff_m", "max_diff_deg", "max_error_m"}
RmsEntries == {"rms_distance_m", "rms_diff_m", "rms_diff_deg", "rms_error_m"}
PercentileEntries == {"percentile_95_m", "percentile_95_deg"}

\* The summary has an entry for each of the eight statistics.
CarriesAll(summary) ==
    \A entries \in {CountEntries, MeanEntries, MedianEntries, StdEntries,
                     MinEntries, MaxEntries, RmsEntries, PercentileEntries} :
        DOMAIN summary \cap entries # {}

\* The statistics a summary has an entry for.
Carried(summary) ==
    { name \in {"count", "mean", "median", "std", "min", "max", "rms", "p95"} :
        DOMAIN summary \cap
            (CASE name = "count" -> CountEntries
               [] name = "mean" -> MeanEntries
               [] name = "median" -> MedianEntries
               [] name = "std" -> StdEntries
               [] name = "min" -> MinEntries
               [] name = "max" -> MaxEntries
               [] name = "rms" -> RmsEntries
               [] name = "p95" -> PercentileEntries) # {} }

\* C20 as stated: every summary of a deviation group that is not empty
\* (position, depth, altitude and heading of the pairwise comparison,
\* position and depth of the accuracy comparison) carries all of count, mean,
\* median, standard deviation, minimum, maximum, RMS and 95th percentile.
C20_Original ==
    /\ \A key \in DOMAIN stats : CarriesAll(stats[key])
    /\ \A key \in DOMAIN accuracy_stats : CarriesAll(accuracy_stats[key])

\* C20, amended: no summary carries a count.  The position summary of the
\* pairwise comparison carries mean, median, standard deviation, minimum,
\* maximum, RMS and 95th percentile; the position summary of the accuracy
\* comparison carries these without the minimum; the depth, altitude and
\* heading summaries of the pairwise comparison and the depth summary of the
\* accuracy comparison carry mean, median, standard deviation and maximum
\* only.  A summary exists exactly for the groups that are not empty.
C20_SummaryEntries ==
    /\ \A key \in DOMAIN stats :
          /\ Carried(stats[key]) =
                 IF key = "position_stats"
                 THEN {"mean", "median", "std", "min", "max", "rms", "p95"}
                 ELSE {"mean", "median", "std", "max"}
          /\ Cardinality(DOMAIN stats[key]) = Cardinality(Carried(stats[key]))
    /\ \A key \in DOMAIN accuracy_stats :
          /\ Carried(accuracy_stats[key]) =
                 IF key = "position_accuracy"
                 THEN {"mean", "median", "std", "max", "rms", "p95"}
                 ELSE {"mean", "median", "std", "max"}
          /\ Cardinality(DOMAIN accuracy_stats[key]) = Cardinality(Carried(accuracy_stats[key]))
    /\ pc = "stats_return" =>
          /\ "position_stats" \in DOMAIN stats <=> distances # << >>
          /\ "depth_stats" \in DOMAIN stats <=> depth_differences # << >>
          /\ "altitude_stats" \in DOMAIN stats <=> altitude_differences # << >>
          /\ "heading_stats" \in DOMAIN stats <=> heading_differences # << >>

\* A pairwise comparison has returned all four summaries.
C20_Witness ==
    /\ pc = "stats_return"
    /\ DOMAIN stats = {"position_stats", "depth_stats", "altitude_stats", "heading_stats"}
    /\ stats["position_stats"].max_distance_m = 600
    /\ stats["heading_stats"].mean_diff_deg = 200

---------------------------------------------------------------------------
(* Properties of the summary statistics, under SpecSummarize *)

\* A summary of a list that is not empty has been built.
Summarized == pc \in {"path_summary", "accuracy_summary"} /\ samples # << >>

\* The value at the zero-based index rank of the sorted samples: fewer than
\* rank + 1 samples are below it and at least rank + 1 are not above it.
ValueAtRank(rank) ==
    CHOOSE v \in { samples[k] : k \in 1..Len(samples) } :
        /\ Cardinality({ k \in 1..Len(samples) : samples[k] < v }) <= rank
        /\ Cardinality({ k \in 1..Len(samples) : samples[k] <= v }) > rank

\* The largest of the samples.
LargestSample ==
    CHOOSE v \in { samples[k] : k \in 1..Len(samples) } :
        \A k \in 1..Len(samples) : samples[k] <= v

\* The 95th percentile the summaries report, in tenths.
ReportedPercentile ==
    IF pc = "path_summary" THEN summaries["position_stats"].percentile_95_m
    ELSE summaries["position_accuracy"].percentile_95_m

\* C21: the 95th percentile reported for a group of n >= 1 values is the
\* value at the zero-based index floor(0.95 * n) of the sorted values; the
\* index is within 0..n-1, and for every n <= 20 the value reported is the
\* maximum (the values 1..10 give 10).
C21_PercentileIndex ==
    Summarized =>
        LET count == Len(samples)
            index == (95 * count) \div 100
        IN  /\ index \in 0..(count - 1)
            /\ ReportedPercentile = 10 * ValueAtRank(index)
            /\ count <= 20 => ReportedPercentile = 10 * LargestSample
            /\ samples = [k \in 1..10 |-> k] => ReportedPercentile = 100

\* The percentile of 21 different values is the second largest of them, not
\* the largest.
C21_Witness ==
    /\ pc = "path_summary"
    /\ Len(samples) = 21
    /\ ReportedPercentile = 10 * ValueAtRank(19)
    /\ ReportedPercentile < 10 * LargestSample

\* The standard deviations the summaries report, in tenths.
ReportedStds ==
    IF pc = "path_summary"
    THEN { summaries["position_stats"].std_distance_m, summaries["depth_stats"].std_diff_m,
           summaries["altitude_stats"].std_diff_m, summaries["heading_stats"].std_diff_deg }
    ELSE { summaries["position_accuracy"].std_error_m, summaries["depth_accuracy"].std_error_m }

\* The means, medians and maxima the summaries report, and the RMS, 95th
\* percentiles and minima of those that report one.
ReportedCentres ==
    UNION { { summaries[key][entry] : entry \in DOMAIN summaries[key] \ StdEntries } :
              key \in DOMAIN summaries }

\* count^2 times the sum of the squared deviations of the samples from their
\* mean, by the identity count * (count * sum of squares - (sum)^2).
ScaledSquaredDeviations ==
    Len(samples) * (Len(samples) * SumOfSquares(samples) - SeqSum(samples) * SeqSum(samples))

\* s is, in tenths rounded down, the square root of the squared deviations
\* over count - 1.
IsSampleStd(s) ==
    LET count == Len(samples)
        divisor == count * count * (count - 1)
    IN  /\ s >= 0
        /\ s * s * divisor <= 100 * ScaledSquaredDeviations
        /\ 100 * ScaledSquaredDeviations < (s + 1) * (s + 1) * divisor

\* C22: the standard deviation reported for a group is the sample standard
\* deviation (divisor n - 1) when n >= 2 and is 0 when n = 1; every summary
\* that is built carries one, and building it never raises.  A group of
\* identical values has the standard deviation 0 and its mean, median, RMS,
\* 95th percentile, maximum and minimum, where reported, are that value
\* ([5,5,5,5] gives 0 and 5).
C22_SampleStd ==
    Summarized =>
        /\ \A key \in DOMAIN summaries : DOMAIN summaries[key] \cap StdEntries # {}
        /\ \A s \in ReportedStds :
              IF Len(samples) >= 2 THEN IsSampleStd(s) ELSE s = 0
        /\ (\A k \in 1..Len(samples) : samples[k] = samples[1]) =>
              /\ ReportedStds = {0}
              /\ ReportedCentres = {10 * samples[1]}
        /\ samples = << 5, 5, 5, 5 >> => (ReportedStds = {0} /\ ReportedCentres = {50})

\* The samples 1 and 2 have the sample standard deviation 0.7, where the
\* divisor n would give 0.5.
C22_Witness ==
    /\ pc = "path_summary"
    /\ samples = << 1, 2 >>
    /\ ReportedStds = {7}

---------------------------------------------------------------------------
(* Groups without a measurement, under SpecSummaries *)

\* The loop of a comparator is over and its dict is about to be built.
PathLoopOver == pc = "stats_loop" /\ idx1 > Len(resampled_path1)
AccuracyLoopOver == pc = "accuracy_loop" /\ idx_telem > Len(resampled_telemetry)

\* The group of key is in the dict exactly when its list holds a value, and
\* then with entries computed from the list, of which the maximum is one.
PresentIffMeasured(dict, key, list, max_entry) ==
    IF list = << >> THEN key \notin DOMAIN dict
    ELSE key \in DOMAIN dict /\ dict[key][max_entry] = 10 * SeqMax(list)

\* C23: a deviation group with zero values has no summary in the result: its
\* key is absent, which no numeric summary is, so no zero-filled statistics
\* are reported for a group without measurements; building the result for
\* lists of which some or all are empty does not raise.
C23_EmptyGroupAbsent ==
    [][/\ PathLoopOver =>
             /\ pc' = "stats_return"
             /\ PresentIffMeasured(stats', "position_stats", distances, "max_distance_m")
             /\ PresentIffMeasured(stats', "depth_stats", depth_differences, "max_diff_m")
             /\ PresentIffMeasured(stats', "altitude_stats", altitude_differences,
                                   "max_diff_m")
             /\ PresentIffMeasured(stats', "heading_stats", heading_differences,
                                   "max_diff_deg")
       /\ AccuracyLoopOver =>
             /\ pc' = "accuracy_return"
             /\ PresentIffMeasured(accuracy_stats', "position_accuracy",
                                   distances_to_planned, "max_error_m")
             /\ PresentIffMeasured(accuracy_stats', "depth_accuracy", depth_errors,
                                   "max_error_m")]_vars

\* A comparison of two points of which only the first has a depth has
\* returned a position summary and no depth summary.
C23_Witness ==
    /\ pc = "stats_return"
    /\ path1 # << >> /\ path2 # << >>
    /\ path1[1].depth # None
    /\ distances # << >>
    /\ depth_differences = << >>
    /\ "position_stats" \in DOMAIN stats
    /\ "depth_stats" \notin DOMAIN stats

---------------------------------------------------------------------------
(* Points emitted after a point without a position, under SpecResample *)

\* The first point has been taken by the call.
FirstTaken == pc \in {"resample_loop", "resample_return"} /\ telemetry_data # << >>

\* The positions, other than the first, of valid points directly after a
\* point without a position.
AfterInvalid ==
    { j \in 2..Len(telemetry_data) :
          HasPosition(telemetry_data[j]) /\ ~HasPosition(telemetry_data[j - 1]) }

\* C27: a point other than the first is in the resampled list only if it and
\* its immediate predecessor both have a latitude and a longitude; the first
\* point is in the list whether or not it has a position; a point with a
\* position directly after a point without one is never in the list, whatever
\* the interval.
C27_EmittedAfterValid ==
    /\ \A k \in 1..Len(resampled) :
           resampled[k] # 1 =>
               /\ HasPosition(telemetry_data[resampled[k]])
               /\ HasPosition(telemetry_data[resampled[k] - 1])
    /\ FirstTaken => (resampled # << >> /\ resampled[1] = 1)
    /\ AfterInvalid \cap Range(resampled) = {}

\* With the interval 0, the call has returned the first point, which has no
\* position, and the third, but not the second, which has a position and
\* follows the first.
C27_Witness ==
    /\ pc = "resample_return"
    /\ interval_m = 0
    /\ Len(telemetry_data) = 3
    /\ ~HasPosition(telemetry_data[1])
    /\ 2 \in AfterInvalid
    /\ resampled = << 1, 3 >>

---------------------------------------------------------------------------
(* Sample counts, under SpecSummaries *)

\* C28: in the pairwise comparison the depth, altitude and heading samples
\* are each at most as many as the position samples, which are at most as
\* many as the resampled points of path1, which are at most as many as the
\* points of path1; in the accuracy comparison the depth errors are at most
\* as many as the position errors, which are at most as many as the resampled
\* telemetry points.
C28_CountsOrdered ==
    /\ Len(depth_differences) <= Len(distances)
    /\ Len(altitude_differences) <= Len(distances)
    /\ Len(heading_differences) <= Len(distances)
    /\ Len(distances) <= Len(resampled_path1)
    /\ Len(resampled_path1) <= Len(path1)
    /\ Len(depth_errors) <= Len(distances_to_planned)
    /\ Len(distances_to_planned) <= Len(resampled_telemetry)

\* An accuracy comparison of two points, of which one has a depth, has
\* returned with two position errors and one depth error.
C28_Witness ==
    /\ pc = "accuracy_return"
    /\ Len(telemetry_data) = 2
    /\ Len(resampled_telemetry) = 2
    /\ Len(distances_to_planned) = 2
    /\ Len(depth_errors) = 1

\* A pairwise comparison has returned with a position sample and fewer depth
\* than heading samples.
C28_PathWitness ==
    /\ pc = "stats_return"
    /\ Len(distances) = 1
    /\ Len(depth_differences) = 0
    /\ Len(heading_differences) = 1

---------------------------------------------------------------------------
(* Properties of the stored results, under SpecSessions *)

\* The places in sessions_data of the loaded sessions that have telemetry.
WithTelemetry ==
    { k \in 1..Len(sessions_data) : sessions_data[k].telemetry_data # << >> }

\* The last call was one of compare_all_sessions.
Compared == pc \in {"compare_skipped", "compared", "compare_raised"}

\* Both result keys are in the stored dict.
BothResults == {"precision_results", "accuracy_results"} \subseteq DOMAIN comparison_stats

\* C29: after any sequence of load_all_sessions and compare_all_sessions
\* calls, comparison_stats is empty or has both precision_results and
\* accuracy_results; a compare_all_sessions call with fewer than two loaded
\* sessions with telemetry leaves it as it was; so export_comparison_data
\* never writes the accuracy file without the timestamp bound by the
\* precision export, and never raises for the timestamp.
C29_EmptyOrBothResults ==
    [][/\ (comparison_stats' = << >> \/ BothResults')
       /\ (Compared' /\ Cardinality(WithTelemetry) < 2) =>
              comparison_stats' = comparison_stats
       /\ pc' # "export_raised"
       /\ "accuracy_statistics" \in exported' => timestamp' # None]_vars

\* A comparison has just been skipped for want of telemetry while the results
\* of an earlier comparison are stored, both of whose files an export has
\* written.
C29_Witness ==
    /\ pc = "compare_skipped"
    /\ Cardinality(WithTelemetry) < 2
    /\ BothResults
    /\ DOMAIN comparison_stats.precision_results # {}
    /\ exported = {"precision_statistics", "accuracy_statistics"}
    /\ timestamp # None

---------------------------------------------------------------------------
(* Properties of the pairwise comparison, under SpecSessions *)

\* The pairs of places of sessions with telemetry, earlier before later.
OrderedPairs == { pair \in WithTelemetry \X WithTelemetry : pair[1] < pair[2] }

\* The key under which the result of a pair is kept.
KeyOf(pair) ==
    sessions_data[pair[1]].session_name \o "_vs_" \o sessions_data[pair[2]].session_name

\* The result of a pair is kept, and is the comparison of the earlier-loaded
\* with the later-loaded of the two.
KeptInOrder(pair) ==
    /\ KeyOf(pair) \in DOMAIN precision_results
    /\ precision_results[KeyOf(pair)] =
           calculate_path_statistics(sessions_data[pair[1]].telemetry_data,
                                     sessions_data[pair[2]].telemetry_data)

\* A comparison has run over the loaded sessions.
PairsCompared == pc \in {"compared", "compare_raised"}

\* C30 as stated: when N >= 2 loaded sessions have telemetry,
\* compare_all_sessions compares each unordered pair once, as (earlier-loaded,
\* later-loaded), and N(N-1)/2 precision results come of it; sessions
\* without telemetry are in no pair and do not stop the comparison.
C30_Original ==
    LET count == Cardinality(WithTelemetry)
    IN  /\ (Compared /\ count >= 2) => PairsCompared
        /\ PairsCompared =>
               /\ count >= 2
               /\ \A pair \in OrderedPairs : KeptInOrder(pair)
               /\ Cardinality(DOMAIN precision_results) = (count * (count - 1)) \div 2

\* Where the keys of the pairs differ from each other, the results are as C30
\* says.
C30_WhereKeysDiffer ==
    LET count == Cardinality(WithTelemetry)
    IN  /\ (Compared /\ count >= 2) => PairsCompared
        /\ PairsCompared =>
               /\ count >= 2
               /\ DOMAIN precision_results = { KeyOf(pair) : pair \in OrderedPairs }
               /\ (\A p, q \in OrderedPairs : KeyOf(p) = KeyOf(q) => p = q) =>
                      /\ \A pair \in OrderedPairs : KeptInOrder(pair)
                      /\ Cardinality(DOMAIN precision_results) =
                             (count * (count - 1)) \div 2

\* Three sessions with telemetry have been compared and two results are kept.
C30_Witness ==
    /\ pc = "compared"
    /\ Cardinality(WithTelemetry) = 3
    /\ Cardinality(DOMAIN precision_results) = 2

\* Three loaded sessions, of which the second has no telemetry, have been
\* compared: the one result kept is of the first with the third.
C30_SkipsEmptyWitness ==
    /\ pc = "compared"
    /\ Len(sessions_data) = 3
    /\ WithTelemetry = {1, 3}
    /\ DOMAIN precision_results = { KeyOf(<< 1, 3 >>) }
    /\ precision_results[KeyOf(<< 1, 3 >>)] #
           calculate_path_statistics(sessions_data[3].telemetry_data,
                                     sessions_data[1].telemetry_data)

---------------------------------------------------------------------------
(* The comparators and the state of their caller, under SpecPairs *)

\* C26: the comparison of a pair depends on its two arguments only:
\* calculate_path_statistics and calculate_accuracy_to_planned leave
\* sessions_data and comparison_stats (and the results their caller keeps) as
\* they are, and what they return is a function of the two arguments, whatever
\* the other sessions, the pairs compared before and the results stored.
C26_ArgumentsOnly ==
    [][/\ sessions_data' = sessions_data
       /\ comparison_stats' = comparison_stats
       /\ precision_results' = precision_results
       /\ accuracy_results' = accuracy_results
       /\ pc' = "stats_return" => stats' = calculate_path_statistics(path1, path2)
       /\ pc' = "accuracy_return" =>
              accuracy_stats' =
                  calculate_accuracy_to_planned(telemetry_data, planned_waypoints).result
       /\ pc' = "accuracy_raised" =>
              calculate_accuracy_to_planned(telemetry_data, planned_waypoints).raised]_vars

\* The second and third of three sessions have been compared, after the first
\* with each of them, with the results of an earlier comparison stored: the
\* result returned differs from a result of the pairs before.
C26_Witness ==
    /\ pc = "stats_return"
    /\ Len(sessions_data) = 3
    /\ path1 = sessions_data[2].telemetry_data
    /\ path2 = sessions_data[3].telemetry_data
    /\ Cardinality(DOMAIN precision_results) = 2
    /\ comparison_stats # << >>
    /\ \E key \in DOMAIN precision_results : precision_results[key] # stats

---------------------------------------------------------------------------
(* The arguments of the path functions, under SpecInputs *)

\* The trajectory and waypoint lists handed to the four functions, and the
\* lists of the loaded sessions they are taken from.
InputLists ==
    << telemetry_data, target_point, path_points, path1, path2, planned_waypoints,
       sessions_data >>

\* C24: resample_path_by_distance, find_closest_point,
\* calculate_path_statistics and calculate_accuracy_to_planned never change
\* the trajectory or waypoint lists they are given: no step of a call changes
\* the length, the order or a field value of one of them; the resampled result
\* is a list of its own, which grows while the list it is taken from stays as
\* it is.
C24_InputsUnchanged ==
    [][/\ InputLists' = InputLists
       /\ resampled' # resampled => telemetry_data' = telemetry_data]_vars

\* resample_path_by_distance has returned one point of a path of two.
C24_Witness ==
    /\ pc = "resample_return"
    /\ Len(telemetry_data) = 2
    /\ HasPosition(telemetry_data[1]) /\ HasPosition(telemetry_data[2])
    /\ resampled = << 1 >>

\* calculate_path_statistics has returned for two paths of loaded sessions,
\* of which it resampled and matched the first.
C24_ComparedWitness ==
    /\ pc = "stats_return"
    /\ Len(path1) = 2
    /\ resampled_path1 = << 1, 2 >>
    /\ Len(distances) = 2
    /\ \E k \in 1..Len(sessions_data) : sessions_data[k].telemetry_data = path1

---------------------------------------------------------------------------
(* Properties of calculate_distance, under SpecDistance *)

\* A distance call has returned.
DistanceReturned == pc \in {"distance_return", "analyzer_distance_return"}

\* Four times the dot product of the unit vectors of two positions:
\* 4 sin(lat1) sin(lat2) + 4 cos(lat1) cos(lat2) cos(lon2 - lon1).
DotProduct(lat1, lon1, lat2, lon2) ==
    LET sines == IF lat1 = 0 \/ lat2 = 0 THEN 0 ELSE IF lat1 = lat2 THEN 3 ELSE -3
        cos_dlon == CASE lon2 - lon1 = 0 -> 1
                      [] lon2 - lon1 \in {-90, 90} -> 0
                      [] lon2 - lon1 \in {-180, 180} -> -1
    IN  sines + CosLatitude[lat1] * CosLatitude[lat2] * cos_dlon

\* The great-circle distance on a sphere of radius 6,371,000 m: the radius
\* times the angle c between the two unit vectors, of which
\* sin^2(c/2) = (1 - cos c) / 2.
GreatCircle(lat1, lon1, lat2, lon2) ==
    6371 * CentralAngle[16 - 4 * DotProduct(lat1, lon1, lat2, lon2)]

\* C25: calculate_distance gives 0 for a point and itself, the same for (a, b)
\* as for (b, a), and the haversine (great-circle) distance on a sphere of
\* radius 6,371,000 m.
C25_HaversineMetric ==
    DistanceReturned =>
        LET lat1 == endpoints[1]
            lon1 == endpoints[2]
            lat2 == endpoints[3]
            lon2 == endpoints[4]
        IN  /\ (lat1 = lat2 /\ lon1 = lon2) => distance_m = 0
            /\ distance_m = HaversineDistance(lat2, lon2, lat1, lon1)
            /\ distance_m = GreatCircle(lat1, lon1, lat2, lon2)
            /\ distance_m >= 0

\* The distance from (60, 0) to (0, 90), a quarter of a great circle, has
\* been returned.
C25_Witness ==
    /\ pc = "distance_return"
    /\ endpoints = << 60, 0, 0, 90 >>
    /\ distance_m = 6371 * 1570

\* The analyzer's copy has returned the distance of a point and itself.
C25_SamePointWitness ==
    /\ pc = "analyzer_distance_return"
    /\ endpoints = << -60, 180, -60, 180 >>
    /\ distance_m = 0

===========================================================================
